---- MODULE Spec2Model ----
(***************************************************************************)
(* A model of the Shima LED monitor: the notification fan-out              *)
(* (src/src/notification_system.py), the status aggregator, the            *)
(* configuration loader and the monitoring tasks (src/main.py), the LED    *)
(* detector (src/src/led_detector.py) and the RTSP frame source            *)
(* (src/src/rtsp_client.py).                                               *)
(*                                                                         *)
(* Each component has its own specifications (SpecFan, SpecAgg, SpecPrio,  *)
(* SpecCfg, SpecMon, SpecRetry, SpecRestart, SpecDet, SpecMulti, SpecRtsp, *)
(* SpecCapture, SpecLife, SpecQueue, SpecHealth, SpecBackoff, SpecHeal,    *)
(* SpecColour, SpecShared, SpecRequeue, SpecChannel) over the one set of   *)
(* variables; a component that a specification does not exercise keeps its *)
(* constructed state.                                                      *)
(***************************************************************************)
EXTENDS Integers, Sequences, FiniteSets, TLC

VARIABLES
    providers,          \* NotificationManager.providers: the registered channels, in order
    last_send,          \* the last send_notification call: outcomes drawn, channels invoked, result
    last_status,        \* ShimaMonitor.last_status: region_key -> status (Absent: key not in the dict)
    mon,                \* per camera monitoring thread: the transition it is in the middle of, or Idle
    detection_history,  \* the lines _save_detection_history has appended, by their camera_id and
                        \* region_name fields: the status field of each, in file order
    fed,                \* per (camera, region): the statuses handed to _process_detection, in order
    dispatched,         \* per (camera, region): the number of send_notification calls made for it
    lamp,               \* the colours the monitored LED can show (fixed for a run)
    status_history,     \* LEDDetector.status_history: region name -> raw statuses (<<>>: no entry yet)
    crop,               \* the crop of the last detect_led_in_region call
    detection,          \* the LEDDetection the last detect_led_in_region call returned
    recent,             \* per region name: the raw colours of its last history_length non-empty crops
    is_running,         \* RTSPClient.is_running
    cap,                \* RTSPClient.cap: the handle it refers to (None: no handle)
    handle,             \* every cv2.VideoCapture object: "unused", "open", "lost" or "released"
    frame_queue,        \* RTSPClient.frame_queue: the buffered frames, oldest first
    current_frame,      \* RTSPClient.current_frame (None before the first frame)
    stats,              \* RTSPClient.stats: frames_received, frames_dropped, connection_errors
    capture_thread,     \* RTSPClient.capture_thread (None: never started)
    pc,                 \* per capture thread: where it is in _capture_frames
    attempt,            \* per capture thread: attempt of _attempt_reconnection (0 outside it)
    newcap,             \* per capture thread: what _create_capture returned, not yet assigned
    frame,              \* per capture thread: the frame it has read and not yet queued
    ctl,                \* the caller of start() and stop(): "idle", or "joining" inside stop()
    taken,              \* frames removed from the queue by a consumer or by stop()
    reconnect_failed,   \* per capture thread: _attempt_reconnection has used up its attempts
    failed_on,          \* the handle on which a read last failed (None: no read has failed)
    events,             \* the NotificationEvents _send_notification has built: status and priority of each
    start_ret,          \* what the last start() call returned ("none": start() has not been called)
    got,                \* what the consumer's get_frame_from_queue calls returned, in call order (NoFrame: None)
    region_config,      \* the led_regions list of one camera in the configuration file
    configured,         \* load_configuration has run
    registered,         \* ShimaMonitor.led_regions of that camera
    classified,         \* the regions _monitor_camera has handed to the detector
    multi,              \* the detect_multiple_leds call in progress or last finished: its regions, the index of the next one, its results, the indices that raised, and the number of calls begun
    running,            \* ShimaMonitor.running
    mctl,               \* the caller of start_monitoring() and stop_monitoring(): "idle", or "joining" inside stop_monitoring()
    monitoring_thread,  \* ShimaMonitor.monitoring_threads of the camera (None: no thread yet)
    mpc,                \* per monitoring thread: where it is in _monitor_camera
    held,               \* per monitoring thread: the frame it has taken and not yet processed
    stream,             \* the camera's entry in RTSPManager.clients: "present" or "absent"
    captured,           \* the number of frames the camera's streams have captured
    latest,             \* what get_frame returns for the camera's stream: its client's current_frame
    processed,          \* the frames whose detection _process_detection has been called with, in call order
    frame_age,          \* whole seconds since RTSPClient.last_frame_time, counted up to healthy_age (last_frame_time is 0 at construction)
    reachable,          \* the camera answers a connection attempt (cv2.VideoCapture opens and delivers a frame)
    sending,            \* per monitoring thread: the status whose notification it is sending inside _process_detection (NotSending: none)
    slept,              \* per capture thread: the seconds each time.sleep of its current (or last) _attempt_reconnection call waited, in order
    broken,             \* the handles whose session is dead: isOpened() still answers true and every read() fails
    colour_result,      \* what the detect_led_color call on the crop returned (NoColourResult: not called yet)
    own,                \* per camera: the raw colours of the last history_length non-empty crops of its own frames
    caller,             \* the camera whose monitoring task made the last detect_led_in_region call (NoCaller: none yet)
    channels,           \* the configurations of the channels registered with the NotificationManager, in registration order
    fanout              \* the last send_notification call through those channels: its priority and, per channel, whether send contacted a server, whether the server took the message, and what send returned

aggVars == <<last_status, mon, detection_history, fed, dispatched>>
fanVars == <<providers, last_send>>
detVars == <<lamp, status_history, crop, detection, recent>>
rtspVars == <<is_running, cap, handle, frame_queue, current_frame, stats, capture_thread,
              pc, attempt, newcap, frame, ctl, taken, reconnect_failed, failed_on>>

prioVars == <<events>>
retVars == <<start_ret>>
gotVars == <<got>>
cfgVars == <<region_config, configured, registered, classified>>
multiVars == <<multi>>
monVars == <<running, mctl, monitoring_thread, mpc, held, stream, captured, latest, processed>>
clockVars == <<frame_age>>
netVars == <<reachable>>
sendVars == <<sending>>
backoffVars == <<slept>>
healVars == <<broken>>
colourVars == <<colour_result>>
sharedVars == <<own, caller>>
channelVars == <<channels, fanout>>
----------------------------------------------------------------------------
(* LEDStatus, src/src/led_detector.py:12-20 *)
OFF == "off"
GREEN == "green"
YELLOW == "yellow"
RED == "red"
FLASHING_GREEN == "flashing_green"
FLASHING_YELLOW == "flashing_yellow"
FLASHING_RED == "flashing_red"

LEDStatus == {OFF, GREEN, YELLOW, RED, FLASHING_GREEN, FLASHING_YELLOW, FLASHING_RED}

Max(a, b) == IF a >= b THEN a ELSE b
Min(a, b) == IF a <= b THEN a ELSE b

----------------------------------------------------------------------------
(***************************************************************************)
(* Notification fan-out: NotificationManager                               *)
(***************************************************************************)

\* Bound: the number of channels add_provider registers.
MaxProviders == 3

\* The kinds of channel: the NotificationProvider subclasses.
ProviderKinds == {"email", "webhook", "telegram"}

\* What one provider.send call can do: return True, return False, or raise.
Outcome == {"ok", "fail", "raise"}

\* Before any send_notification call.
NoSend == [provs |-> <<>>, outs |-> <<>>, invoked |-> <<>>, ret |-> FALSE, raised |-> FALSE,
           called |-> FALSE]

\* Mutant of ProviderLoop: no try/except around provider.send, so the first
\* raise leaves the loop and reaches the caller.
RECURSIVE ProviderLoopNoCatch(_, _, _, _)
ProviderLoopNoCatch(i, outs, success_count, invoked) ==
    IF i > Len(outs)
    THEN [success_count |-> success_count, invoked |-> invoked, raised |-> FALSE]
    ELSE IF outs[i] = "raise"
    THEN [success_count |-> success_count, invoked |-> Append(invoked, i), raised |-> TRUE]
    ELSE ProviderLoopNoCatch(i + 1, outs,
                      IF outs[i] = "ok" THEN success_count + 1 ELSE success_count,
                      Append(invoked, i))

\* The loop of send_notification from provider i on, against the outcomes
\* outs[i] of the providers' send calls. A raise is caught inside the loop
\* and the loop goes on with the next provider.
RECURSIVE ProviderLoop(_, _, _, _)
ProviderLoop(i, outs, success_count, invoked) ==
    IF i > Len(outs)
    THEN [success_count |-> success_count, invoked |-> invoked, raised |-> FALSE]
    ELSE ProviderLoop(i + 1, outs,
                      IF outs[i] = "ok" THEN success_count + 1 ELSE success_count,
                      Append(invoked, i))

\* Mutant of SendResult: success requires every provider to succeed.
SendResultAll(provs, outs) ==
    IF provs = <<>>
    THEN [provs |-> provs, outs |-> <<>>, invoked |-> <<>>, ret |-> FALSE, raised |-> FALSE,
          called |-> TRUE]
    ELSE LET r == ProviderLoop(1, outs, 0, <<>>)
         IN  [provs |-> provs, outs |-> outs, invoked |-> r.invoked,
              ret |-> (r.success_count = Len(provs)), raised |-> r.raised, called |-> TRUE]

\* send_notification over the provider list provs, the i-th provider's send
\* doing outs[i]: the record of what the call did and returned.
SendResult(provs, outs) ==
    IF provs = <<>>
    THEN [provs |-> provs, outs |-> <<>>, invoked |-> <<>>, ret |-> FALSE, raised |-> FALSE,
          called |-> TRUE]
    ELSE LET r == ProviderLoop(1, outs, 0, <<>>)
         IN  [provs |-> provs, outs |-> outs, invoked |-> r.invoked,
              ret |-> (r.success_count > 0), raised |-> r.raised, called |-> TRUE]

\* The outcomes the providers of provs can produce in one fan-out.
OutcomesOf(provs) == [1..Len(provs) -> Outcome]

\* NotificationManager.add_provider
add_provider ==
    /\ Len(providers) < MaxProviders
    /\ \E kind \in ProviderKinds : providers' = Append(providers, kind)
    /\ UNCHANGED last_send

\* NotificationManager.send_notification called directly
send_notification ==
    /\ \E outs \in OutcomesOf(providers) :
          last_send' = SendResult(providers, outs)
    /\ UNCHANGED providers

----------------------------------------------------------------------------
(***************************************************************************)
(* Status aggregator: ShimaMonitor._process_detection and what it calls    *)
(***************************************************************************)

\* Bound: the number of detections handed to _process_detection in a run.
MaxDetections == 5

\* The configured cameras and the region names of each (ShimaMonitor.cameras,
\* ShimaMonitor.led_regions). Ids and names are free text of the YAML file;
\* these contain the '_' that region_key also uses as its separator.
Cameras == {"a", "a_b"}
led_regions == [c \in Cameras |-> IF c = "a" THEN {"b_c", "c"} ELSE {"c"}]

Pairs == {p \in [camera : Cameras, region : {"b_c", "c"}] : p.region \in led_regions[p.camera]}

\* The statuses the detections of a run carry.
FedStatus == {OFF, GREEN, RED}

\* region_key = f"{camera_id}_{detection.region.name}"
region_key(camera_id, name) == camera_id \o "_" \o name

Keys == {region_key(p.camera, p.region) : p \in Pairs}

\* region_key not in self.last_status
Absent == "absent"

\* The monitoring thread of a camera is between detections.
Idle == [region |-> "", status |-> ""]

\* The number of detections handed to _process_detection so far.
RECURSIVE SumLen(_, _)
SumLen(f, S) ==
    IF S = {} THEN 0
    ELSE LET x == CHOOSE y \in S : TRUE IN Len(f[x]) + SumLen(f, S \ {x})

TotalFed == SumLen(fed, Pairs)

\* Mutant of StatusChanged: every detection counts as a change.
StatusChangedAlways(key, current_status) == TRUE

\* Mutant of StatusChanged: a key that is not in the table yet is not a change.
StatusChangedKnownOnly(key, current_status) ==
    last_status[key] # Absent /\ last_status[key] # current_status

\* The test of _process_detection: the key is new or its status differs.
StatusChanged(key, current_status) ==
    last_status[key] = Absent \/ last_status[key] # current_status

\* _process_detection up to and including _send_notification: the status
\* comparison and, on a change, the fan-out (every exception of which
\* _send_notification catches).
ProcessDetection(camera_id, name, current_status) ==
    LET key == region_key(camera_id, name)
        p == [camera |-> camera_id, region |-> name]
    IN  /\ mon[camera_id] = Idle
        /\ name \in led_regions[camera_id]
        /\ TotalFed < MaxDetections
        /\ fed' = [fed EXCEPT ![p] = Append(@, current_status)]
        /\ IF StatusChanged(key, current_status)
           THEN /\ \E outs \in OutcomesOf(providers) :
                      last_send' = SendResult(providers, outs)
                /\ dispatched' = [dispatched EXCEPT ![p] = @ + 1]
                /\ mon' = [mon EXCEPT ![camera_id] = [region |-> name, status |-> current_status]]
           ELSE UNCHANGED <<last_send, dispatched, mon>>
        /\ UNCHANGED <<providers, last_status, detection_history>>

\* Mutant of RecordStatus: the table is updated only when the fan-out
\* returned true.
RecordStatusOnSuccess(camera_id) ==
    /\ mon[camera_id] # Idle
    /\ LET d == mon[camera_id]
       IN  /\ last_status' = IF last_send.ret
                             THEN [last_status EXCEPT ![region_key(camera_id, d.region)] = d.status]
                             ELSE last_status
           /\ detection_history' =
                  [detection_history EXCEPT ![[camera |-> camera_id, region |-> d.region]] =
                      Append(@, d.status)]
    /\ mon' = [mon EXCEPT ![camera_id] = Idle]
    /\ UNCHANGED <<providers, last_send, fed, dispatched>>

\* The rest of _process_detection on a change: the table is updated and
\* _save_detection_history appends the record.
RecordStatus(camera_id) ==
    /\ mon[camera_id] # Idle
    /\ LET d == mon[camera_id]
       IN  /\ last_status' = [last_status EXCEPT ![region_key(camera_id, d.region)] = d.status]
           /\ detection_history' =
                  [detection_history EXCEPT ![[camera |-> camera_id, region |-> d.region]] =
                      Append(@, d.status)]
    /\ mon' = [mon EXCEPT ![camera_id] = Idle]
    /\ UNCHANGED <<providers, last_send, fed, dispatched>>



----------------------------------------------------------------------------
(***************************************************************************)
(* LED detector: LEDDetector                                               *)
(***************************************************************************)

brightness_threshold == 25
history_length == 10
flashing_threshold == 3

RawStatus == {OFF, GREEN, YELLOW, RED}
Colours == {GREEN, YELLOW, RED}

\* The region names the detector is called with.
RegionNames == {"c", "d"}

\* The region a run of the detector alone classifies.
DetRegions == {"c"}

\* The number of pixels of a non-empty crop.
CropSize == 10

\* A crop (the region's pixels after preprocess_frame) as what detect_led_color
\* reads of it: its pixel count, the mean of its brightness channel, and the
\* number of pixels each colour's mask holds after the morphological clean-up.
EmptyCrop == [size |-> 0, brightness |-> 0, count |-> [c \in Colours |-> 0]]

\* A crop of mean brightness b in which each colour of the set colours holds
\* n mask pixels.
ColouredCrop(b, colours, n) ==
    [size |-> CropSize, brightness |-> b,
     count |-> [c \in Colours |-> IF c \in colours THEN n ELSE 0]]

\* The crops of a run: none at all (region outside the frame), a crop just
\* below the brightness threshold that still holds coloured pixels of the
\* lamp, and a lit crop of each colour of the lamp at the threshold.
Crops(colours) ==
    {EmptyCrop, ColouredCrop(brightness_threshold - 1, colours, 5)}
    \cup {ColouredCrop(brightness_threshold, {c}, 8) : c \in colours}

\* The colour with the most mask pixels; max() keeps the first maximum in the
\* insertion order of the masks: GREEN, YELLOW, RED.
BestStatus(count) ==
    IF count[GREEN] >= count[YELLOW] /\ count[GREEN] >= count[RED] THEN GREEN
    ELSE IF count[YELLOW] >= count[RED] THEN YELLOW
    ELSE RED

\* A confidence num/den is kept as the pair of its numerator and denominator.
One == [num |-> 1, den |-> 1]
Zero == [num |-> 0, den |-> 1]

\* Mutant of detect_led_color: no brightness test before the colour masks.
detect_led_color_no_dark(roi) ==
    LET best == BestStatus(roi.count)
    IN  IF roi.count[best] * 10 < roi.size
        THEN [status |-> OFF, confidence |-> One, brightness |-> roi.brightness]
        ELSE [status |-> best, confidence |-> [num |-> roi.count[best], den |-> roi.size],
              brightness |-> roi.brightness]

\* Mutant of detect_led_color: a best colour at exactly 10% of the crop is
\* not enough evidence.
detect_led_color_above_tenth(roi) ==
    IF roi.brightness < brightness_threshold
    THEN [status |-> OFF, confidence |-> One, brightness |-> roi.brightness]
    ELSE LET best == BestStatus(roi.count)
         IN  IF roi.count[best] * 10 <= roi.size
             THEN [status |-> OFF, confidence |-> One, brightness |-> roi.brightness]
             ELSE [status |-> best, confidence |-> [num |-> roi.count[best], den |-> roi.size],
                   brightness |-> roi.brightness]

\* detect_led_color: (status, confidence, brightness) of a non-empty crop.
detect_led_color(roi) ==
    IF roi.brightness < brightness_threshold
    THEN [status |-> OFF, confidence |-> One, brightness |-> roi.brightness]
    ELSE LET best == BestStatus(roi.count)
         IN  IF roi.count[best] * 10 < roi.size
             THEN [status |-> OFF, confidence |-> One, brightness |-> roi.brightness]
             ELSE [status |-> best, confidence |-> [num |-> roi.count[best], den |-> roi.size],
                   brightness |-> roi.brightness]

\* Mutant of update_status_history: the newest entry is evicted, not the oldest.
update_status_history_pop_last(history, status) ==
    LET h == Append(history, status)
    IN  IF Len(h) > history_length THEN SubSeq(h, 1, Len(h) - 1) ELSE h

\* Mutant of update_status_history: the oldest entry goes as soon as the
\* window holds history_length entries.
update_status_history_early_pop(history, status) ==
    LET h == Append(history, status)
    IN  IF Len(h) >= history_length THEN Tail(h) ELSE h

\* update_status_history: append, then pop(0) when longer than history_length.
update_status_history(history, status) ==
    LET h == Append(history, status)
    IN  IF Len(h) > history_length THEN Tail(h) ELSE h

\* Mutant of FlashScan: the first non-OFF colour seen at a change is kept.
RECURSIVE FlashScanFirstColour(_, _, _, _)
FlashScanFirstColour(history, i, changes, base_color) ==
    IF i > Len(history)
    THEN [changes |-> changes, base_color |-> base_color]
    ELSE IF history[i] # history[i - 1]
    THEN FlashScanFirstColour(history, i + 1, changes + 1,
                   IF history[i] \in Colours /\ base_color = "none"
                   THEN history[i] ELSE base_color)
    ELSE FlashScanFirstColour(history, i + 1, changes, base_color)

\* The loop of detect_flashing from index i on: the changes counted so far
\* and the last non-OFF colour seen at a change ("none": base_color is None).
RECURSIVE FlashScan(_, _, _, _)
FlashScan(history, i, changes, base_color) ==
    IF i > Len(history)
    THEN [changes |-> changes, base_color |-> base_color]
    ELSE IF history[i] # history[i - 1]
    THEN FlashScan(history, i + 1, changes + 1,
                   IF history[i] \in Colours THEN history[i] ELSE base_color)
    ELSE FlashScan(history, i + 1, changes, base_color)

FlashingOf(colour) ==
    IF colour = GREEN THEN FLASHING_GREEN
    ELSE IF colour = YELLOW THEN FLASHING_YELLOW
    ELSE FLASHING_RED

\* Mutant of detect_flashing: more than flashing_threshold changes are needed.
detect_flashing_above_threshold(history, current_status) ==
    IF Len(history) < history_length
    THEN current_status
    ELSE LET scan == FlashScan(history, 2, 0, "none")
         IN  IF scan.changes > flashing_threshold /\ scan.base_color # "none"
             THEN FlashingOf(scan.base_color)
             ELSE current_status

\* Mutant of detect_flashing: the window is examined before it is full.
detect_flashing_any_length(history, current_status) ==
    LET scan == FlashScan(history, 2, 0, "none")
    IN  IF scan.changes >= flashing_threshold /\ scan.base_color # "none"
        THEN FlashingOf(scan.base_color)
        ELSE current_status

\* Mutant of detect_flashing: a frame whose raw colour is OFF is reported OFF.
detect_flashing_lit_only(history, current_status) ==
    IF Len(history) < history_length \/ current_status = OFF
    THEN current_status
    ELSE LET scan == FlashScan(history, 2, 0, "none")
         IN  IF scan.changes >= flashing_threshold /\ scan.base_color # "none"
             THEN FlashingOf(scan.base_color)
             ELSE current_status

\* detect_flashing over the region's history (which exists: it has just been
\* updated).
detect_flashing(history, current_status) ==
    IF Len(history) < history_length
    THEN current_status
    ELSE LET scan == FlashScan(history, 2, 0, "none")
         IN  IF scan.changes >= flashing_threshold /\ scan.base_color # "none"
             THEN FlashingOf(scan.base_color)
             ELSE current_status

\* Before any detect_led_in_region call.
NoDetection == [region |-> "", status |-> "", raw |-> "", confidence |-> Zero, brightness |-> 0]

\* The last n entries of a sequence.
LastN(s, n) == IF Len(s) <= n THEN s ELSE SubSeq(s, Len(s) - n + 1, Len(s))

\* LEDDetector.detect_led_in_region on the crop roi of region name.
detect_led_in_region(name, roi) ==
    /\ crop' = roi
    /\ IF roi.size = 0
       THEN /\ detection' = [region |-> name, status |-> OFF, raw |-> "",
                             confidence |-> Zero, brightness |-> 0]
            /\ UNCHANGED <<status_history, recent>>
       ELSE LET r == detect_led_color(roi)
                history == update_status_history(status_history[name], r.status)
            IN  /\ status_history' = [status_history EXCEPT ![name] = history]
                /\ detection' = [region |-> name,
                                 status |-> detect_flashing(history, r.status),
                                 raw |-> r.status,
                                 confidence |-> r.confidence, brightness |-> r.brightness]
                /\ recent' = [recent EXCEPT ![name] = LastN(Append(@, r.status), history_length)]
    /\ UNCHANGED lamp


----------------------------------------------------------------------------
(***************************************************************************)
(* Frame source: RTSPClient                                                *)
(***************************************************************************)

\* Bound: RTSPConfig.buffer_size, the capacity of frame_queue (the monitor's
\* default is 2).
buffer_size == 2

\* Bound: the number of frames the camera delivers in a run of SpecRtsp.
MaxFrames == 2

\* Bound: the number of frames the camera delivers in a run of SpecCapture.
MaxPushed == 5

\* Bound: the number of frames the camera delivers in a run of SpecLife.
LifeFrames == 1

\* Bound: the number of failed reads counted in a run.
MaxErrors == 1

max_attempts == 5
join_timeout == 5
open_timeout == 30

\* The capture threads start() can spawn in a run, and the cv2.VideoCapture
\* objects _create_capture can open.
ThreadOrder == <<"t1", "t2">>
HandleOrder == <<"h1", "h2", "h3">>
Threads == {ThreadOrder[i] : i \in DOMAIN ThreadOrder}
Handles == {HandleOrder[i] : i \in DOMAIN HandleOrder}

None == "None"

\* Frames are numbered in capture order from 1; NoFrame is the None of
\* current_frame and of a thread that holds no frame.
NoFrame == 0

\* self.cap is not None and self.cap.isOpened()
Connected == cap # None /\ handle[cap] = "open"

\* The handles that are opened and not released.
ActiveHandles == {h \in Handles : handle[h] = "open"}

\* The objects not created yet, and the next one to be created.
UnusedHandles == {h \in Handles : handle[h] = "unused"}
NextHandle == HandleOrder[Cardinality(Handles) - Cardinality(UnusedHandles) + 1]
UnbornThreads == {t \in Threads : pc[t] = "unborn"}
NextThread == ThreadOrder[Cardinality(Threads) - Cardinality(UnbornThreads) + 1]

\* Rebinding a name drops the last reference to the cv2.VideoCapture object it
\* held, whose destructor releases it.
Dropped(hs, old, new) ==
    IF old # None /\ old # new /\ hs[old] \in {"open", "lost"}
    THEN [hs EXCEPT ![old] = "released"]
    ELSE hs

\* cap.release() on the handle self.cap refers to.
Released(hs, h) == IF h # None THEN [hs EXCEPT ![h] = "released"] ELSE hs

\* The connection of an opened handle drops: isOpened() turns false.
HandleLost(h) ==
    /\ handle[h] = "open"
    /\ handle' = [handle EXCEPT ![h] = "lost"]
    /\ UNCHANGED <<is_running, cap, frame_queue, current_frame, stats, capture_thread,
                   pc, attempt, newcap, frame, ctl, taken, reconnect_failed, failed_on>>

\* Mutant of start: is_running is set before the capture is created.
start_running_first ==
    /\ ctl = "idle"
    /\ IF is_running
       THEN UNCHANGED <<is_running, cap, handle, capture_thread, pc>>
       ELSE \/ /\ cap' = None
               /\ handle' = Dropped(handle, cap, None)
               /\ is_running' = TRUE
               /\ UNCHANGED <<capture_thread, pc>>
            \/ /\ UnusedHandles # {}
               /\ UnbornThreads # {}
               /\ LET h == NextHandle
                      t == NextThread
                  IN
                  /\ cap' = h
                  /\ handle' = [Dropped(handle, cap, h) EXCEPT ![h] = "open"]
                  /\ is_running' = TRUE
                  /\ capture_thread' = t
                  /\ pc' = [pc EXCEPT ![t] = "loop"]
    /\ UNCHANGED <<frame_queue, current_frame, stats, attempt, newcap, frame, ctl, taken, reconnect_failed, failed_on>>

\* RTSPClient.start: already running, or _create_capture fails, or the handle
\* is kept and the capture thread spawned.
start ==
    /\ ctl = "idle"
    /\ IF is_running
       THEN UNCHANGED <<is_running, cap, handle, capture_thread, pc>>
       ELSE \/ /\ cap' = None
               /\ handle' = Dropped(handle, cap, None)
               /\ UNCHANGED <<is_running, capture_thread, pc>>
            \/ /\ UnusedHandles # {}
               /\ UnbornThreads # {}
               /\ LET h == NextHandle
                      t == NextThread
                  IN
                  /\ cap' = h
                  /\ handle' = [Dropped(handle, cap, h) EXCEPT ![h] = "open"]
                  /\ is_running' = TRUE
                  /\ capture_thread' = t
                  /\ pc' = [pc EXCEPT ![t] = "loop"]
    /\ UNCHANGED <<frame_queue, current_frame, stats, attempt, newcap, frame, ctl, taken, reconnect_failed, failed_on>>

\* A start() call together with the value it returns: True when already
\* running, False when _create_capture gave no handle, True otherwise.
StartCall ==
    /\ start
    /\ start_ret' = IF is_running \/ cap' # None THEN "True" ELSE "False"

\* RTSPClient.stop up to the join: is_running is cleared.
stop ==
    /\ ctl = "idle"
    /\ is_running
    /\ is_running' = FALSE
    /\ ctl' = "joining"
    /\ UNCHANGED <<cap, handle, frame_queue, current_frame, stats, capture_thread,
                   pc, attempt, newcap, frame, taken, reconnect_failed, failed_on>>

\* The capture thread is inside a reconnection attempt, whose sleep and open
\* (up to 2^attempt + open_timeout seconds) can outlast join(timeout=5).
OutlastsJoin(t) ==
    /\ pc[t] \in {"reopen", "assign"}
    /\ 2 ^ attempt[t] + open_timeout > join_timeout

\* RTSPClient.stop from the join on: join returns because the thread has
\* ended or because its timeout has passed; the handle is released and the
\* queue emptied.
stop_join ==
    /\ ctl = "joining"
    /\ pc[capture_thread] = "done" \/ OutlastsJoin(capture_thread)
    /\ handle' = Released(handle, cap)
    /\ cap' = None
    /\ frame_queue' = <<>>
    /\ taken' = taken + Len(frame_queue)
    /\ ctl' = "idle"
    /\ UNCHANGED <<is_running, current_frame, stats, capture_thread, pc, attempt, newcap, frame, reconnect_failed, failed_on>>

\* RTSPClient.get_latest_frame
get_latest_frame == IF ~is_running THEN NoFrame ELSE current_frame

\* RTSPClient.get_frame_from_queue when a frame is buffered.
get_frame_from_queue ==
    /\ frame_queue # <<>>
    /\ frame_queue' = Tail(frame_queue)
    /\ taken' = taken + 1
    /\ UNCHANGED <<is_running, cap, handle, current_frame, stats, capture_thread,
                   pc, attempt, newcap, frame, ctl, reconnect_failed, failed_on>>

\* RTSPClient.get_frame_from_queue when the queue stays empty for the whole
\* timeout: queue.Empty is caught and None returned; nothing changes.
get_frame_from_queue_timeout ==
    /\ frame_queue = <<>>
    /\ UNCHANGED rtspVars

\* Bound: the number of get_frame_from_queue calls whose result is kept.
MaxDequeues == 4

\* A get_frame_from_queue call of the consumer together with what it returns.
Dequeue ==
    /\ Len(got) < MaxDequeues
    /\ \/ get_frame_from_queue /\ got' = Append(got, Head(frame_queue))
       \/ get_frame_from_queue_timeout /\ got' = Append(got, NoFrame)

\* _capture_frames, top of the loop: the thread ends when is_running is
\* false, enters _attempt_reconnection when there is no opened handle, and
\* otherwise goes on to read.
LoopHead(t) ==
    /\ pc[t] = "loop"
    /\ IF ~is_running THEN pc' = [pc EXCEPT ![t] = "done"] /\ UNCHANGED attempt
       ELSE IF ~Connected
       THEN pc' = [pc EXCEPT ![t] = "reconnect"] /\ attempt' = [attempt EXCEPT ![t] = 0]
       ELSE pc' = [pc EXCEPT ![t] = "read"] /\ UNCHANGED attempt
    /\ UNCHANGED <<is_running, cap, handle, frame_queue, current_frame, stats, capture_thread,
                   newcap, frame, ctl, taken, reconnect_failed, failed_on>>

\* self.cap.read() and what follows it up to the queue: a frame is read,
\* counted and cached; or the read fails and is counted; or self.cap has
\* become None meanwhile and the AttributeError is caught by the loop.
ReadFrame(t, max_frames) ==
    /\ pc[t] = "read"
    /\ \/ /\ cap = None
          /\ pc' = [pc EXCEPT ![t] = "loop"]
          /\ UNCHANGED <<stats, current_frame, frame, failed_on>>
       \/ /\ cap # None
          /\ stats.connection_errors < MaxErrors
          /\ stats' = [stats EXCEPT !.connection_errors = @ + 1]
          /\ failed_on' = cap
          /\ pc' = [pc EXCEPT ![t] = "loop"]
          /\ UNCHANGED <<current_frame, frame>>
       \/ /\ Connected
          /\ stats.frames_received < max_frames
          /\ stats' = [stats EXCEPT !.frames_received = @ + 1]
          /\ current_frame' = stats.frames_received + 1
          /\ frame' = [frame EXCEPT ![t] = stats.frames_received + 1]
          /\ pc' = [pc EXCEPT ![t] = "enqueue"]
          /\ UNCHANGED failed_on
    /\ UNCHANGED <<is_running, cap, handle, frame_queue, capture_thread, attempt, newcap,
                   ctl, taken, reconnect_failed>>

\* Mutant of Enqueue: when the queue is full the new frame is the one dropped.
EnqueueDropNewest(t) ==
    /\ pc[t] = "enqueue"
    /\ IF Len(frame_queue) < buffer_size
       THEN pc' = [pc EXCEPT ![t] = "put"] /\ UNCHANGED <<stats, frame>>
       ELSE /\ pc' = [pc EXCEPT ![t] = "loop"]
            /\ stats' = [stats EXCEPT !.frames_dropped = @ + 1]
            /\ frame' = [frame EXCEPT ![t] = NoFrame]
    /\ UNCHANGED <<is_running, cap, handle, frame_queue, current_frame, capture_thread,
                   attempt, newcap, ctl, taken, reconnect_failed, failed_on>>

\* if not self.frame_queue.full()
Enqueue(t) ==
    /\ pc[t] = "enqueue"
    /\ pc' = [pc EXCEPT ![t] = IF Len(frame_queue) < buffer_size THEN "put" ELSE "drop"]
    /\ UNCHANGED <<is_running, cap, handle, frame_queue, current_frame, stats, capture_thread,
                   attempt, newcap, frame, ctl, taken, reconnect_failed, failed_on>>

\* Mutant of DropOldest: the frame removed to make room is not counted.
DropOldestUncounted(t) ==
    /\ pc[t] = "drop"
    /\ IF frame_queue # <<>>
       THEN frame_queue' = Tail(frame_queue)
       ELSE UNCHANGED frame_queue
    /\ pc' = [pc EXCEPT ![t] = "put"]
    /\ UNCHANGED <<is_running, cap, handle, current_frame, stats, capture_thread, attempt,
                   newcap, frame, ctl, taken, reconnect_failed, failed_on>>

\* get_nowait() of the oldest frame, counted as dropped; queue.Empty is passed.
DropOldest(t) ==
    /\ pc[t] = "drop"
    /\ IF frame_queue # <<>>
       THEN /\ frame_queue' = Tail(frame_queue)
            /\ stats' = [stats EXCEPT !.frames_dropped = @ + 1]
       ELSE UNCHANGED <<frame_queue, stats>>
    /\ pc' = [pc EXCEPT ![t] = "put"]
    /\ UNCHANGED <<is_running, cap, handle, current_frame, capture_thread, attempt, newcap,
                   frame, ctl, taken, reconnect_failed, failed_on>>

\* Mutant of PutFrame: the frame is put at the head of the queue.
PutFrameFront(t) ==
    /\ pc[t] = "put"
    /\ IF Len(frame_queue) < buffer_size
       THEN frame_queue' = <<frame[t]>> \o frame_queue /\ UNCHANGED stats
       ELSE stats' = [stats EXCEPT !.frames_dropped = @ + 1] /\ UNCHANGED frame_queue
    /\ frame' = [frame EXCEPT ![t] = NoFrame]
    /\ pc' = [pc EXCEPT ![t] = "loop"]
    /\ UNCHANGED <<is_running, cap, handle, current_frame, capture_thread, attempt, newcap,
                   ctl, taken, reconnect_failed, failed_on>>

\* put_nowait(frame); on queue.Full the frame is counted as dropped.
PutFrame(t) ==
    /\ pc[t] = "put"
    /\ IF Len(frame_queue) < buffer_size
       THEN frame_queue' = Append(frame_queue, frame[t]) /\ UNCHANGED stats
       ELSE stats' = [stats EXCEPT !.frames_dropped = @ + 1] /\ UNCHANGED frame_queue
    /\ frame' = [frame EXCEPT ![t] = NoFrame]
    /\ pc' = [pc EXCEPT ![t] = "loop"]
    /\ UNCHANGED <<is_running, cap, handle, current_frame, capture_thread, attempt, newcap,
                   ctl, taken, reconnect_failed, failed_on>>

\* Mutant of ReconnectLoop: when the attempts are used up the capture thread
\* gives up and ends.
ReconnectLoopGiveUp(t) ==
    /\ pc[t] = "reconnect"
    /\ IF attempt[t] < max_attempts /\ is_running
       THEN /\ attempt' = [attempt EXCEPT ![t] = @ + 1]
            /\ handle' = Released(handle, cap)
            /\ cap' = None
            /\ pc' = [pc EXCEPT ![t] = "reopen"]
            /\ UNCHANGED reconnect_failed
       ELSE /\ pc' = [pc EXCEPT ![t] = IF attempt[t] >= max_attempts THEN "done" ELSE "loop"]
            /\ reconnect_failed' =
                  [reconnect_failed EXCEPT ![t] = @ \/ attempt[t] >= max_attempts]
            /\ attempt' = [attempt EXCEPT ![t] = 0]
            /\ UNCHANGED <<handle, cap>>
    /\ UNCHANGED <<is_running, frame_queue, current_frame, stats, capture_thread, newcap,
                   frame, ctl, taken, failed_on>>

\* _attempt_reconnection, top of its loop: another attempt begins by
\* releasing the handle, or the attempts are used up (or is_running is false)
\* and the call returns False to the capture loop, which goes round again.
ReconnectLoop(t) ==
    /\ pc[t] = "reconnect"
    /\ IF attempt[t] < max_attempts /\ is_running
       THEN /\ attempt' = [attempt EXCEPT ![t] = @ + 1]
            /\ handle' = Released(handle, cap)
            /\ cap' = None
            /\ pc' = [pc EXCEPT ![t] = "reopen"]
            /\ UNCHANGED reconnect_failed
       ELSE /\ pc' = [pc EXCEPT ![t] = "loop"]
            /\ reconnect_failed' =
                  [reconnect_failed EXCEPT ![t] = @ \/ attempt[t] >= max_attempts]
            /\ attempt' = [attempt EXCEPT ![t] = 0]
            /\ UNCHANGED <<handle, cap>>
    /\ UNCHANGED <<is_running, frame_queue, current_frame, stats, capture_thread, newcap,
                   frame, ctl, taken, failed_on>>

\* time.sleep(2 ** attempt), then _create_capture: the stream opens and its
\* first frame is read, or it returns None.
ReOpen(t) ==
    /\ pc[t] = "reopen"
    /\ \/ /\ newcap' = [newcap EXCEPT ![t] = None]
          /\ UNCHANGED handle
       \/ /\ UnusedHandles # {}
          /\ handle' = [handle EXCEPT ![NextHandle] = "open"]
          /\ newcap' = [newcap EXCEPT ![t] = NextHandle]
    /\ pc' = [pc EXCEPT ![t] = "assign"]
    /\ UNCHANGED <<is_running, cap, frame_queue, current_frame, stats, capture_thread,
                   attempt, frame, ctl, taken, reconnect_failed, failed_on>>

\* self.cap = (what _create_capture returned); on a handle the call returns
\* True to the capture loop, on None the next attempt follows.
AssignCap(t) ==
    /\ pc[t] = "assign"
    /\ cap' = newcap[t]
    /\ handle' = Dropped(handle, cap, newcap[t])
    /\ newcap' = [newcap EXCEPT ![t] = None]
    /\ pc' = [pc EXCEPT ![t] = IF newcap[t] # None THEN "loop" ELSE "reconnect"]
    /\ attempt' = [attempt EXCEPT ![t] = IF newcap[t] # None THEN 0 ELSE @]
    /\ UNCHANGED <<is_running, frame_queue, current_frame, stats, capture_thread,
                   frame, ctl, taken, reconnect_failed, failed_on>>

\* One step of capture thread t.
CaptureStep(t, max_frames) ==
    \/ LoopHead(t)
    \/ ReadFrame(t, max_frames)
    \/ Enqueue(t)
    \/ DropOldest(t)
    \/ PutFrame(t)
    \/ ReconnectLoop(t)
    \/ ReOpen(t)
    \/ AssignCap(t)

----------------------------------------------------------------------------
(***************************************************************************)
(* Event priority: ShimaMonitor._send_notification                        *)
(***************************************************************************)

\* Bound: the number of events built in a run.
MaxEvents == 3

\* SETTINGS["notifications"]["priority_mapping"]
priority_mapping ==
    [s \in LEDStatus |->
        IF s \in {RED, FLASHING_RED} THEN "high"
        ELSE IF s \in {YELLOW, FLASHING_YELLOW, OFF} THEN "medium"
        ELSE "low"]

\* Mutant of _get_notification_priority: OFF falls through to the last branch.
_get_notification_priority_no_off(status) ==
    IF status \in {RED, FLASHING_RED} THEN "high"
    ELSE IF status \in {YELLOW, FLASHING_YELLOW} THEN "medium"
    ELSE "low"

\* ShimaMonitor._get_notification_priority
_get_notification_priority(status) ==
    IF status \in {RED, FLASHING_RED} THEN "high"
    ELSE IF status \in {YELLOW, FLASHING_YELLOW} THEN "medium"
    ELSE IF status \in {OFF} THEN "medium"
    ELSE "low"

\* _send_notification for a detection of the given status: the priority is
\* computed and handed to the fan-out with the event.
_send_notification(status) ==
    /\ Len(events) < MaxEvents
    /\ events' = Append(events, [status |-> status,
                                 priority |-> _get_notification_priority(status)])

----------------------------------------------------------------------------
(***************************************************************************)
(* Configuration: ShimaMonitor.load_configuration                          *)
(***************************************************************************)

\* Bound: the number of regions the configuration file lists for the camera.
MaxRegions == 2

\* The rectangles a region entry of the file can carry: x and y negative,
\* zero or positive, width and height zero or positive.
RegionConfigs == [x : {-1, 0, 1}, y : {-1, 0}, width : {0, 2}, height : {0, 2}]

\* The lists of at most n region entries.
RegionLists(n) == UNION {[1..k -> RegionConfigs] : k \in 0..n}

\* settings.validate_led_region_config for an entry that has every field,
\* with integer values: TRUE when it returns True, FALSE when it raises
\* ValueError.
validate_led_region_config(config) ==
    \A coord \in {"x", "y", "width", "height"} : ~(config[coord] < 0)

\* load_configuration, the led_regions part for one camera: an LEDRegion is
\* built from every entry and appended; validate_led_region_config is not
\* called, and no entry that has all its fields raises.
load_configuration ==
    /\ ~configured
    /\ configured' = TRUE
    /\ registered' = [i \in 1..Len(region_config) |->
                        [x |-> region_config[i].x, y |-> region_config[i].y,
                         width |-> region_config[i].width,
                         height |-> region_config[i].height]]
    /\ UNCHANGED <<region_config, classified>>

\* _monitor_camera hands the i-th registered region to detect_multiple_leds
\* with a frame.
MonitorRegion(i) ==
    /\ configured
    /\ i \in 1..Len(registered)
    /\ classified' = classified \cup {registered[i]}
    /\ UNCHANGED <<region_config, configured, registered>>

----------------------------------------------------------------------------
(***************************************************************************)
(* LED detector: LEDDetector.detect_multiple_leds                          *)
(***************************************************************************)

\* Bound: the number of detect_multiple_leds calls of a run.
MaxCalls == 2

\* The region lists detect_multiple_leds is called with.
RegionSeqs == {<<"c">>, <<"d">>, <<"c", "d">>, <<"d", "c">>}

\* No detect_multiple_leds call yet.
NoCall == [n |-> 0, regions |-> <<>>, i |-> 1, results |-> <<>>, raised |-> {}]

\* detect_multiple_leds, entry: results = [] and the loop begins.
detect_multiple_leds(regions) ==
    /\ multi.i > Len(multi.regions)
    /\ multi.n < MaxCalls
    /\ multi' = [n |-> multi.n + 1, regions |-> regions, i |-> 1,
                 results |-> <<>>, raised |-> {}]
    /\ UNCHANGED detVars

\* One iteration of the loop: detect_led_in_region returns and its detection
\* is appended to results.
DetectRegion ==
    /\ multi.i <= Len(multi.regions)
    /\ \E roi \in Crops(lamp) : detect_led_in_region(multi.regions[multi.i], roi)
    /\ multi' = [multi EXCEPT
                    !.results = Append(@, [region |-> detection'.region,
                                           status |-> detection'.status,
                                           confidence |-> detection'.confidence,
                                           brightness |-> detection'.brightness,
                                           size |-> crop'.size]),
                    !.i = @ + 1]

\* Mutant of DetectRegionRaises: the exception ends the loop.
DetectRegionRaisesAbort ==
    /\ multi.i <= Len(multi.regions)
    /\ multi' = [multi EXCEPT !.raised = @ \cup {multi.i}, !.i = Len(multi.regions) + 1]
    /\ UNCHANGED detVars

\* One iteration of the loop in which detect_led_in_region raises (in the crop
\* or in preprocess_frame, before the history is touched): the exception is
\* caught and logged, and the loop goes on with the next region.
DetectRegionRaises ==
    /\ multi.i <= Len(multi.regions)
    /\ multi' = [multi EXCEPT !.raised = @ \cup {multi.i}, !.i = @ + 1]
    /\ UNCHANGED detVars

----------------------------------------------------------------------------
(***************************************************************************)
(* Monitoring tasks: ShimaMonitor.start_monitoring, stop_monitoring and    *)
(* _monitor_camera, for one camera with one region                         *)
(***************************************************************************)

\* Bound: the number of frames the camera's streams capture in a run.
MaxMonFrames == 3

\* Bound: the number of _process_detection calls of a run.
MaxProcessed == 3

\* thread.join(timeout=5) in stop_monitoring, and the timeout of one
\* channel's request inside send_notification (WebhookConfig.timeout).
monitor_join_timeout == 5
webhook_timeout == 10

\* The monitoring threads start_monitoring can spawn in a run.
MThreadOrder == <<"m1", "m2">>
MThreads == {MThreadOrder[i] : i \in DOMAIN MThreadOrder}
UnbornMThreads == {t \in MThreads : mpc[t] = "unborn"}
NextMThread == MThreadOrder[Cardinality(MThreads) - Cardinality(UnbornMThreads) + 1]

\* RTSPManager.get_frame(camera_id): None when the camera has no client,
\* otherwise the client's latest frame.
get_frame == IF stream = "absent" THEN NoFrame ELSE latest

\* The capture thread of the camera's client reads a frame and caches it.
NewFrame ==
    /\ stream = "present"
    /\ captured < MaxMonFrames
    /\ captured' = captured + 1
    /\ latest' = captured + 1
    /\ UNCHANGED <<running, mctl, monitoring_thread, mpc, held, stream, processed>>

\* ShimaMonitor.start_monitoring: nothing when already running; otherwise
\* running is set, the stream is added (its client starts, or fails and is
\* not kept) and a monitoring thread is spawned either way.
start_monitoring ==
    /\ mctl = "idle"
    /\ IF running
       THEN UNCHANGED monVars
       ELSE /\ UnbornMThreads # {}
            /\ running' = TRUE
            /\ \/ stream' = "present" /\ latest' = NoFrame
               \/ stream' = "absent" /\ UNCHANGED latest
            /\ monitoring_thread' = NextMThread
            /\ mpc' = [mpc EXCEPT ![NextMThread] = "loop"]
            /\ UNCHANGED <<mctl, held, captured, processed>>

\* ShimaMonitor.stop_monitoring up to the joins: running is cleared and
\* stop_all() stops and removes the camera's client.
stop_monitoring ==
    /\ mctl = "idle"
    /\ running
    /\ running' = FALSE
    /\ stream' = "absent"
    /\ mctl' = "joining"
    /\ UNCHANGED <<monitoring_thread, mpc, held, captured, latest, processed>>

\* The monitoring thread is inside send_notification, where one channel's
\* request alone can take longer than the join waits.
SendOutlastsJoin(t) ==
    /\ mpc[t] = "send"
    /\ webhook_timeout > monitor_join_timeout

\* stop_monitoring, the join: it returns because the thread has ended or
\* because its timeout has passed; its result is not looked at.
stop_monitoring_join ==
    /\ mctl = "joining"
    /\ mpc[monitoring_thread] = "done" \/ SendOutlastsJoin(monitoring_thread)
    /\ mctl' = "idle"
    /\ UNCHANGED <<running, monitoring_thread, mpc, held, stream, captured, latest, processed>>

\* _monitor_camera, top of the loop: the thread ends when running is false;
\* otherwise it takes the latest frame, and tries again later when there is
\* none.
MonitorLoop(t) ==
    /\ mpc[t] = "loop"
    /\ IF ~running
       THEN mpc' = [mpc EXCEPT ![t] = "done"] /\ UNCHANGED held
       ELSE /\ get_frame # NoFrame
            /\ held' = [held EXCEPT ![t] = get_frame]
            /\ mpc' = [mpc EXCEPT ![t] = "process"]
    /\ UNCHANGED <<running, mctl, monitoring_thread, stream, captured, latest, processed>>

\* detect_multiple_leds on the frame taken and _process_detection up to its
\* status test: on a change the fan-out is called next, otherwise the
\* iteration is over.
MonitorProcess(t) ==
    /\ mpc[t] = "process"
    /\ Len(processed) < MaxProcessed
    /\ processed' = Append(processed, held[t])
    /\ held' = [held EXCEPT ![t] = NoFrame]
    /\ \E changed \in BOOLEAN :
          mpc' = [mpc EXCEPT ![t] = IF changed THEN "send" ELSE "sleep"]
    /\ UNCHANGED <<running, mctl, monitoring_thread, stream, captured, latest>>

\* send_notification returns; the table and the history file are updated.
MonitorSent(t) ==
    /\ mpc[t] = "send"
    /\ mpc' = [mpc EXCEPT ![t] = "sleep"]
    /\ UNCHANGED <<running, mctl, monitoring_thread, held, stream, captured, latest, processed>>

\* time.sleep(1.0 / monitoring_fps) and back to the top of the loop.
MonitorSleep(t) ==
    /\ mpc[t] = "sleep"
    /\ mpc' = [mpc EXCEPT ![t] = "loop"]
    /\ UNCHANGED <<running, mctl, monitoring_thread, held, stream, captured, latest, processed>>

\* One step of monitoring thread t.
_monitor_camera(t) ==
    \/ MonitorLoop(t)
    \/ MonitorProcess(t)
    \/ MonitorSent(t)
    \/ MonitorSleep(t)

----------------------------------------------------------------------------
(***************************************************************************)
(* The health check (src/src/rtsp_client.py, RTSPClient.is_healthy).       *)
(* Time is counted in whole seconds since the last frame was stored.      *)
(***************************************************************************)

\* The age from which a stream is considered unhealthy.
healthy_age == 5

\* is_healthy(): running, a frame has been stored, and it is younger than
\* healthy_age.  The connection handle is not consulted.
is_healthy ==
    /\ is_running
    /\ current_frame # NoFrame
    /\ frame_age < healthy_age

\* get_stats()['is_connected'].
is_connected == Connected

\* One second passes.
Tick ==
    /\ frame_age < healthy_age
    /\ frame_age' = frame_age + 1

\* A step of the capture loop; storing a frame sets last_frame_time to now.
TimedCaptureStep(t) ==
    /\ CaptureStep(t, MaxPushed)
    /\ frame_age' = IF stats'.frames_received # stats.frames_received THEN 0 ELSE frame_age

----------------------------------------------------------------------------
(***************************************************************************)
(* Monitoring a camera that is not always reachable (src/main.py,          *)
(* start_monitoring and _monitor_camera; src/src/rtsp_client.py,           *)
(* RTSPManager.add_stream and get_frame).                                  *)
(***************************************************************************)

\* The camera becomes reachable, or stops being reachable.
CameraUp ==
    /\ ~reachable
    /\ reachable' = TRUE

CameraDown ==
    /\ reachable
    /\ reachable' = FALSE

\* RTSPManager.add_stream inside start_monitoring: client.start() succeeds,
\* and the client is kept, exactly when the camera is reachable.
add_stream ==
    /\ start_monitoring
    /\ ~running => (stream' = "present" <=> reachable)
    /\ UNCHANGED reachable

\* The capture thread of a kept client reads a frame from a reachable camera.
NewFrameOnNetwork ==
    /\ reachable
    /\ NewFrame
    /\ UNCHANGED reachable

----------------------------------------------------------------------------
(***************************************************************************)
(* The monitoring tasks driving the aggregator (src/main.py,               *)
(* _monitor_camera calling _process_detection), for the region             *)
(* MonitoredRegion of the camera MonitoredCamera.                          *)
(***************************************************************************)

MonitoredCamera == "a"
MonitoredRegion == "c"
MonitoredPair == [camera |-> MonitoredCamera, region |-> MonitoredRegion]
MonitoredKey == region_key(MonitoredCamera, MonitoredRegion)

\* The thread is not inside the changed-status branch of _process_detection.
NotSending == ""

\* Monitoring thread t calls _process_detection with a detection of status
\* current_status: the status test and, on a change, _send_notification.
\* The table is not written before the fan-out has returned.
ThreadProcessDetection(t, current_status) ==
    /\ MonitorProcess(t)
    /\ fed' = [fed EXCEPT ![MonitoredPair] = Append(@, current_status)]
    /\ IF StatusChanged(MonitoredKey, current_status)
       THEN /\ mpc'[t] = "send"
            /\ \E outs \in OutcomesOf(providers) :
                  last_send' = SendResult(providers, outs)
            /\ dispatched' = [dispatched EXCEPT ![MonitoredPair] = @ + 1]
            /\ sending' = [sending EXCEPT ![t] = current_status]
       ELSE /\ mpc'[t] = "sleep"
            /\ UNCHANGED <<last_send, dispatched, sending>>
    /\ UNCHANGED <<providers, last_status, mon, detection_history>>

\* The fan-out has returned to thread t: the table is updated and
\* _save_detection_history appends the record.
ThreadRecordStatus(t) ==
    /\ MonitorSent(t)
    /\ last_status' = [last_status EXCEPT ![MonitoredKey] = sending[t]]
    /\ detection_history' = [detection_history EXCEPT ![MonitoredPair] = Append(@, sending[t])]
    /\ sending' = [sending EXCEPT ![t] = NotSending]
    /\ UNCHANGED <<providers, last_send, mon, fed, dispatched>>

----------------------------------------------------------------------------
(***************************************************************************)
(* The waits of _attempt_reconnection (src/src/rtsp_client.py).            *)
(***************************************************************************)

\* Mutant of backoff_delay: the wait grows linearly.
backoff_delay_linear(k) == 2 * k

\* time.sleep(2 ** attempt)
backoff_delay(k) == 2 ^ k

\* A step of the capture loop, with the waits of _attempt_reconnection
\* written down: the call starts with none, and each attempt sleeps between
\* releasing the handle and _create_capture.
BackoffCaptureStep(t) ==
    /\ CaptureStep(t, MaxPushed)
    /\ slept' = [slept EXCEPT ![t] =
                    IF pc[t] = "loop" /\ pc'[t] = "reconnect" THEN <<>>
                    ELSE IF pc[t] = "reopen" THEN Append(@, backoff_delay(attempt[t]))
                    ELSE @]

----------------------------------------------------------------------------
(***************************************************************************)
(* The capture loop on a camera that is not always reachable               *)
(* (src/src/rtsp_client.py, _capture_frames and _attempt_reconnection).    *)
(* A connection fails in one of two ways: the handle notices it            *)
(* (isOpened() turns false, HandleLost), or the session dies while the     *)
(* handle still reports itself opened and its reads return ret = False.    *)
(***************************************************************************)

\* self.cap is an opened handle whose reads deliver frames.
Delivering == Connected /\ cap \notin broken /\ reachable

\* The session of an opened handle dies; no more connections are dropped
\* than there are handles left to re-open.
HandleBreaks(h) ==
    /\ handle[h] = "open"
    /\ h \notin broken
    /\ UnusedHandles # {}
    /\ broken' = broken \cup {h}

HandleLostInBudget(h) ==
    /\ UnusedHandles # {}
    /\ HandleLost(h)

\* start() on this camera: _create_capture gives a handle exactly when the
\* camera is reachable.
StartOnNetwork ==
    /\ start
    /\ ~is_running => (is_running' <=> reachable)

\* self.cap.read() returns ret = False: the error is counted and the loop
\* continues from its top after time.sleep(0.1).
ReadFails(t) ==
    /\ pc[t] = "read"
    /\ cap # None
    /\ ~Delivering
    /\ stats' = [stats EXCEPT !.connection_errors = Min(@ + 1, MaxErrors)]
    /\ failed_on' = cap
    /\ pc' = [pc EXCEPT ![t] = "loop"]
    /\ UNCHANGED <<is_running, cap, handle, frame_queue, current_frame, capture_thread,
                   attempt, newcap, frame, ctl, taken, reconnect_failed>>

\* self.cap.read() delivers a frame, or self.cap has become None.
ReadDelivers(t) ==
    /\ cap # None => Delivering
    /\ ReadFrame(t, LifeFrames)
    /\ cap # None => stats'.frames_received = stats.frames_received + 1

\* _create_capture inside _attempt_reconnection succeeds exactly when the
\* camera is reachable.
ReOpenOnNetwork(t) ==
    /\ ReOpen(t)
    /\ newcap'[t] # None <=> reachable

\* One step of capture thread t on this camera.
HealCaptureStep(t) ==
    \/ LoopHead(t)
    \/ ReadFails(t)
    \/ ReadDelivers(t)
    \/ Enqueue(t)
    \/ DropOldest(t)
    \/ PutFrame(t)
    \/ ReconnectLoop(t)
    \/ ReOpenOnNetwork(t)
    \/ AssignCap(t)

----------------------------------------------------------------------------
(***************************************************************************)
(* detect_led_color on its own (src/src/led_detector.py).                  *)
(***************************************************************************)

\* The crops detect_led_color is called with: of 10 or 20 pixels, just below
\* or at the brightness threshold, each mask holding 0 to 3 pixels.
ColourCrops ==
    [size : {10, 20},
     brightness : {brightness_threshold - 1, brightness_threshold},
     count : [Colours -> 0..3]]

NoColourResult == [status |-> "", confidence |-> Zero, brightness |-> 0]

\* A call of detect_led_color on the crop.
ColourCall ==
    /\ colour_result = NoColourResult
    /\ colour_result' = detect_led_color(crop)

----------------------------------------------------------------------------
(***************************************************************************)
(* The one LEDDetector of the monitor called by the monitoring tasks of    *)
(* two cameras (src/main.py, ShimaMonitor.__init__ and _monitor_camera;    *)
(* src/src/led_detector.py).  Both cameras have a region of the same name. *)
(***************************************************************************)

SharedRegion == "c"

NoCaller == ""

\* What each camera shows in the region: a lit red lamp on camera "a", a
\* lamp that is off on camera "a_b".
CropOf(camera_id) ==
    IF camera_id = "a"
    THEN ColouredCrop(brightness_threshold, {RED}, 8)
    ELSE ColouredCrop(brightness_threshold - 1, {}, 0)

\* The monitoring task of a camera hands the region of its frame to
\* self.led_detector, the detector all tasks share.
CameraDetect(camera_id) ==
    /\ detect_led_in_region(SharedRegion, CropOf(camera_id))
    /\ own' = [own EXCEPT ![camera_id] =
                  LastN(Append(@, detect_led_color(CropOf(camera_id)).status), history_length)]
    /\ caller' = camera_id

----------------------------------------------------------------------------
(***************************************************************************)
(* The channels' own send: EmailProvider, WebhookProvider,                 *)
(* TelegramProvider                                                        *)
(***************************************************************************)

\* Bound: the number of channels registered.
MaxChannels == 2

\* The priorities an event can carry: the values of priority_mapping.
Priorities == {priority_mapping[s] : s \in LEDStatus}

\* NotificationConfig.priority_filter: None (the default) and [] are both
\* falsy and are modelled by the empty set.
NoFilter == {}
Filters == {NoFilter, {"high"}}

\* recipients, urls or chat_ids of a channel: None (the default), an empty
\* list, or a list of one endpoint.
Endpoints == {"None", "empty", "one"}

\* EmailConfig, WebhookConfig, TelegramConfig as send reads them; bot_token
\* is whether the token is a non-empty string, and only Telegram has one.
ChannelConfigs ==
    {c \in [kind : ProviderKinds, enabled : BOOLEAN, priority_filter : Filters,
            endpoints : Endpoints, bot_token : BOOLEAN] :
        c.kind # "telegram" => ~c.bot_token}

\* if self.config.priority_filter and priority not in self.config.priority_filter
Excluded(config, priority) ==
    config.priority_filter # NoFilter /\ priority \notin config.priority_filter

\* send returned True at one of its first two tests.
Skipped == [attempted |-> FALSE, delivered |-> FALSE, ret |-> TRUE]

\* EmailProvider.send; accepted: the SMTP server takes the login and the
\* message.  With recipients None, ", ".join raises inside the try before any
\* connection; with an empty list the server is contacted and sendmail
\* refuses the empty recipient list.  Both end in the except branch.
EmailProvider_send(config, priority, accepted) ==
    IF ~config.enabled THEN Skipped
    ELSE IF Excluded(config, priority) THEN Skipped
    ELSE IF config.endpoints = "None"
    THEN [attempted |-> FALSE, delivered |-> FALSE, ret |-> FALSE]
    ELSE IF config.endpoints = "empty"
    THEN [attempted |-> TRUE, delivered |-> FALSE, ret |-> FALSE]
    ELSE [attempted |-> TRUE, delivered |-> accepted, ret |-> accepted]

\* WebhookProvider.send; accepted: the URL answers 200.
WebhookProvider_send(config, priority, accepted) ==
    IF ~config.enabled \/ config.endpoints # "one" THEN Skipped
    ELSE IF Excluded(config, priority) THEN Skipped
    ELSE [attempted |-> TRUE, delivered |-> accepted, ret |-> accepted]

\* TelegramProvider.send; accepted: sendMessage answers 200.
TelegramProvider_send(config, priority, accepted) ==
    IF ~config.enabled \/ ~config.bot_token \/ config.endpoints # "one" THEN Skipped
    ELSE IF Excluded(config, priority) THEN Skipped
    ELSE [attempted |-> TRUE, delivered |-> accepted, ret |-> accepted]

\* provider.send of a registered channel.
provider_send(config, priority, accepted) ==
    CASE config.kind = "email" -> EmailProvider_send(config, priority, accepted)
      [] config.kind = "webhook" -> WebhookProvider_send(config, priority, accepted)
      [] config.kind = "telegram" -> TelegramProvider_send(config, priority, accepted)

\* Before any send_notification call through the channels.
NoFanout == [priority |-> "", sent |-> <<>>, ret |-> FALSE, called |-> FALSE]

\* NotificationManager.add_provider with a channel of any configuration.
AddChannel(config) ==
    /\ Len(channels) < MaxChannels
    /\ channels' = Append(channels, config)
    /\ UNCHANGED fanout

\* NotificationManager.send_notification over the registered channels;
\* accepts: per channel, whether its server takes the message.
ChannelSend(priority, accepts) ==
    /\ LET sent == [i \in DOMAIN channels |->
                       provider_send(channels[i], priority, accepts[i])]
           success_count == Cardinality({i \in DOMAIN channels : sent[i].ret})
       IN fanout' = IF channels = <<>>
                    THEN [priority |-> priority, sent |-> <<>>, ret |-> FALSE, called |-> TRUE]
                    ELSE [priority |-> priority, sent |-> sent,
                          ret |-> success_count > 0, called |-> TRUE]
    /\ UNCHANGED channels

----------------------------------------------------------------------------
(***************************************************************************)
(* Specifications                                                          *)
(***************************************************************************)

vars == <<fanVars, aggVars, detVars, rtspVars, prioVars, retVars, gotVars, cfgVars, multiVars, monVars, clockVars, netVars, sendVars, backoffVars, healVars, colourVars, sharedVars, channelVars>>

\* NotificationManager.__init__ without a configuration file
FanInit ==
    /\ providers = <<>>
    /\ last_send = NoSend

\* ShimaMonitor.__init__
AggInit ==
    /\ last_status = [k \in Keys |-> Absent]
    /\ mon = [c \in Cameras |-> Idle]
    /\ detection_history = [p \in Pairs |-> <<>>]
    /\ fed = [p \in Pairs |-> <<>>]
    /\ dispatched = [p \in Pairs |-> 0]

\* LEDDetector.__init__
DetInit ==
    /\ status_history = [n \in RegionNames |-> <<>>]
    /\ crop = EmptyCrop
    /\ detection = NoDetection
    /\ recent = [n \in RegionNames |-> <<>>]

\* The lamp of the specifications that do not classify.
NoLamp == {}

\* RTSPClient.__init__
RtspInit ==
    /\ is_running = FALSE
    /\ cap = None
    /\ handle = [h \in Handles |-> "unused"]
    /\ frame_queue = <<>>
    /\ current_frame = NoFrame
    /\ stats = [frames_received |-> 0, frames_dropped |-> 0, connection_errors |-> 0]
    /\ capture_thread = None
    /\ pc = [t \in Threads |-> "unborn"]
    /\ attempt = [t \in Threads |-> 0]
    /\ newcap = [t \in Threads |-> None]
    /\ frame = [t \in Threads |-> NoFrame]
    /\ ctl = "idle"
    /\ taken = 0
    /\ reconnect_failed = [t \in Threads |-> FALSE]
    /\ failed_on = None

\* No event has been built.
PrioInit == events = <<>>

\* ShimaMonitor.__init__: not running, no stream, no monitoring thread.
MonInit ==
    /\ running = FALSE
    /\ mctl = "idle"
    /\ monitoring_thread = None
    /\ mpc = [t \in MThreads |-> "unborn"]
    /\ held = [t \in MThreads |-> NoFrame]
    /\ stream = "absent"
    /\ captured = 0
    /\ latest = NoFrame
    /\ processed = <<>>

\* A monitor under construction, before load_configuration, for a file that
\* lists no region.
CfgInit ==
    /\ region_config = <<>>
    /\ configured = FALSE
    /\ registered = <<>>
    /\ classified = {}

\* The components outside the fan-out, the aggregator, the detector and the
\* frame source, as constructed.
ExtInit ==
    /\ PrioInit
    /\ start_ret = "none"
    /\ got = <<>>
    /\ CfgInit
    /\ multi = NoCall
    /\ MonInit
    /\ frame_age = healthy_age
    /\ reachable = TRUE
    /\ sending = [t \in MThreads |-> NotSending]
    /\ slept = [t \in Threads |-> <<>>]
    /\ broken = {}
    /\ colour_result = NoColourResult
    /\ own = [c \in Cameras |-> <<>>]
    /\ caller = NoCaller
    /\ channels = <<>>
    /\ fanout = NoFanout

Init == FanInit /\ AggInit /\ DetInit /\ lamp = NoLamp /\ RtspInit /\ ExtInit

\* The monitor with the channels of its configuration already registered
\* (registration happens once, before monitoring begins).
AggStart ==
    /\ providers \in {<<>>, <<"email">>}
    /\ last_send = NoSend
    /\ AggInit
    /\ DetInit
    /\ lamp = NoLamp
    /\ RtspInit
    /\ ExtInit

\* The fan-out alone: channels are registered and events are sent.
FanNext ==
    \/ add_provider /\ UNCHANGED <<aggVars, detVars, rtspVars, prioVars, retVars, gotVars, cfgVars, multiVars, monVars, clockVars, netVars, sendVars, backoffVars, healVars, colourVars, sharedVars, channelVars>>
    \/ send_notification /\ UNCHANGED <<aggVars, detVars, rtspVars, prioVars, retVars, gotVars, cfgVars, multiVars, monVars, clockVars, netVars, sendVars, backoffVars, healVars, colourVars, sharedVars, channelVars>>

SpecFan == Init /\ [][FanNext]_vars

\* The aggregator driving the fan-out: one monitoring thread per camera.
AggNext ==
    \/ \E c \in Cameras : \E n \in led_regions[c] : \E s \in FedStatus :
          ProcessDetection(c, n, s) /\ UNCHANGED <<detVars, rtspVars, prioVars, retVars, gotVars, cfgVars, multiVars, monVars, clockVars, netVars, sendVars, backoffVars, healVars, colourVars, sharedVars, channelVars>>
    \/ \E c \in Cameras : RecordStatus(c) /\ UNCHANGED <<detVars, rtspVars, prioVars, retVars, gotVars, cfgVars, multiVars, monVars, clockVars, netVars, sendVars, backoffVars, healVars, colourVars, sharedVars, channelVars>>

SpecAgg == AggStart /\ [][AggNext]_vars


\* The detector classifying the crops of one lamp, frame after frame.
DetStart ==
    /\ FanInit
    /\ AggInit
    /\ DetInit
    /\ lamp \in {{GREEN, RED}, {YELLOW, RED}}
    /\ RtspInit
    /\ ExtInit

DetNext ==
    \E n \in DetRegions : \E roi \in Crops(lamp) :
        detect_led_in_region(n, roi) /\ UNCHANGED <<fanVars, aggVars, rtspVars, prioVars, retVars, gotVars, cfgVars, multiVars, monVars, clockVars, netVars, sendVars, backoffVars, healVars, colourVars, sharedVars, channelVars>>

SpecDet == DetStart /\ [][DetNext]_vars

\* One frame source: its caller starts and stops it, its capture threads run,
\* a consumer takes frames from the queue, and connections drop.
RtspNext ==
    \/ start /\ UNCHANGED <<fanVars, aggVars, detVars, prioVars, retVars, gotVars, cfgVars, multiVars, monVars, clockVars, netVars, sendVars, backoffVars, healVars, colourVars, sharedVars, channelVars>>
    \/ stop /\ UNCHANGED <<fanVars, aggVars, detVars, prioVars, retVars, gotVars, cfgVars, multiVars, monVars, clockVars, netVars, sendVars, backoffVars, healVars, colourVars, sharedVars, channelVars>>
    \/ stop_join /\ UNCHANGED <<fanVars, aggVars, detVars, prioVars, retVars, gotVars, cfgVars, multiVars, monVars, clockVars, netVars, sendVars, backoffVars, healVars, colourVars, sharedVars, channelVars>>
    \/ get_frame_from_queue /\ UNCHANGED <<fanVars, aggVars, detVars, prioVars, retVars, gotVars, cfgVars, multiVars, monVars, clockVars, netVars, sendVars, backoffVars, healVars, colourVars, sharedVars, channelVars>>
    \/ \E h \in Handles : HandleLost(h) /\ UNCHANGED <<fanVars, aggVars, detVars, prioVars, retVars, gotVars, cfgVars, multiVars, monVars, clockVars, netVars, sendVars, backoffVars, healVars, colourVars, sharedVars, channelVars>>
    \/ \E t \in Threads : CaptureStep(t, MaxFrames) /\ UNCHANGED <<fanVars, aggVars, detVars, prioVars, retVars, gotVars, cfgVars, multiVars, monVars, clockVars, netVars, sendVars, backoffVars, healVars, colourVars, sharedVars, channelVars>>

SpecRtsp == Init /\ [][RtspNext]_vars

\* A frame source that is started and never stopped, and whose queue nobody
\* consumes: its one capture thread reads, queues and reconnects.
CaptureNext ==
    \/ start /\ UNCHANGED <<fanVars, aggVars, detVars, prioVars, retVars, gotVars, cfgVars, multiVars, monVars, clockVars, netVars, sendVars, backoffVars, healVars, colourVars, sharedVars, channelVars>>
    \/ \E h \in Handles : HandleLost(h) /\ UNCHANGED <<fanVars, aggVars, detVars, prioVars, retVars, gotVars, cfgVars, multiVars, monVars, clockVars, netVars, sendVars, backoffVars, healVars, colourVars, sharedVars, channelVars>>
    \/ \E t \in Threads : CaptureStep(t, MaxPushed) /\ UNCHANGED <<fanVars, aggVars, detVars, prioVars, retVars, gotVars, cfgVars, multiVars, monVars, clockVars, netVars, sendVars, backoffVars, healVars, colourVars, sharedVars, channelVars>>

SpecCapture == Init /\ [][CaptureNext]_vars

\* Events are built for detections of any status.
PrioNext ==
    \E status \in LEDStatus :
        _send_notification(status) /\ UNCHANGED <<fanVars, aggVars, detVars, rtspVars, retVars, gotVars, cfgVars, multiVars, monVars, clockVars, netVars, sendVars, backoffVars, healVars, colourVars, sharedVars, channelVars>>

SpecPrio == Init /\ [][PrioNext]_vars

\* The life cycle of the frame source: start() calls with their results,
\* stop(), lost connections and the capture threads.
LifeNext ==
    \/ StartCall /\ UNCHANGED <<fanVars, aggVars, detVars, prioVars, gotVars, cfgVars, multiVars, monVars, clockVars, netVars, sendVars, backoffVars, healVars, colourVars, sharedVars, channelVars>>
    \/ stop /\ UNCHANGED <<fanVars, aggVars, detVars, prioVars, retVars, gotVars, cfgVars, multiVars, monVars, clockVars, netVars, sendVars, backoffVars, healVars, colourVars, sharedVars, channelVars>>
    \/ stop_join /\ UNCHANGED <<fanVars, aggVars, detVars, prioVars, retVars, gotVars, cfgVars, multiVars, monVars, clockVars, netVars, sendVars, backoffVars, healVars, colourVars, sharedVars, channelVars>>
    \/ \E h \in Handles : HandleLost(h) /\ UNCHANGED <<fanVars, aggVars, detVars, prioVars, retVars, gotVars, cfgVars, multiVars, monVars, clockVars, netVars, sendVars, backoffVars, healVars, colourVars, sharedVars, channelVars>>
    \/ \E t \in Threads : CaptureStep(t, LifeFrames) /\ UNCHANGED <<fanVars, aggVars, detVars, prioVars, retVars, gotVars, cfgVars, multiVars, monVars, clockVars, netVars, sendVars, backoffVars, healVars, colourVars, sharedVars, channelVars>>

SpecLife == Init /\ [][LifeNext]_vars

\* The capture loop of a source that was started and is never stopped,
\* with one consumer of its queue.
QueueNext ==
    \/ start /\ UNCHANGED <<fanVars, aggVars, detVars, prioVars, retVars, gotVars, cfgVars, multiVars, monVars, clockVars, netVars, sendVars, backoffVars, healVars, colourVars, sharedVars, channelVars>>
    \/ Dequeue /\ UNCHANGED <<fanVars, aggVars, detVars, prioVars, retVars, cfgVars, multiVars, monVars, clockVars, netVars, sendVars, backoffVars, healVars, colourVars, sharedVars, channelVars>>
    \/ \E h \in Handles : HandleLost(h) /\ UNCHANGED <<fanVars, aggVars, detVars, prioVars, retVars, gotVars, cfgVars, multiVars, monVars, clockVars, netVars, sendVars, backoffVars, healVars, colourVars, sharedVars, channelVars>>
    \/ \E t \in Threads : CaptureStep(t, MaxPushed) /\ UNCHANGED <<fanVars, aggVars, detVars, prioVars, retVars, gotVars, cfgVars, multiVars, monVars, clockVars, netVars, sendVars, backoffVars, healVars, colourVars, sharedVars, channelVars>>

SpecQueue == Init /\ [][QueueNext]_vars

\* A monitor constructed on a configuration file with any list of region
\* entries, then monitoring.
CfgStart ==
    /\ FanInit /\ AggInit /\ DetInit /\ lamp = NoLamp /\ RtspInit /\ PrioInit
    /\ start_ret = "none"
    /\ got = <<>>
    /\ region_config \in RegionLists(MaxRegions)
    /\ configured = FALSE
    /\ registered = <<>>
    /\ classified = {}
    /\ multi = NoCall
    /\ MonInit
    /\ frame_age = healthy_age
    /\ reachable = TRUE
    /\ sending = [t \in MThreads |-> NotSending]
    /\ slept = [t \in Threads |-> <<>>]
    /\ broken = {}
    /\ colour_result = NoColourResult
    /\ own = [c \in Cameras |-> <<>>]
    /\ caller = NoCaller
    /\ channels = <<>>
    /\ fanout = NoFanout

CfgNext ==
    \/ load_configuration /\ UNCHANGED <<fanVars, aggVars, detVars, rtspVars, prioVars, retVars, gotVars, multiVars, monVars, clockVars, netVars, sendVars, backoffVars, healVars, colourVars, sharedVars, channelVars>>
    \/ \E i \in 1..MaxRegions :
          MonitorRegion(i) /\ UNCHANGED <<fanVars, aggVars, detVars, rtspVars, prioVars, retVars, gotVars, multiVars, monVars, clockVars, netVars, sendVars, backoffVars, healVars, colourVars, sharedVars, channelVars>>

SpecCfg == CfgStart /\ [][CfgNext]_vars

\* The detector called through detect_multiple_leds on lists of regions.
MultiNext ==
    \/ \E regions \in RegionSeqs :
          detect_multiple_leds(regions)
              /\ UNCHANGED <<fanVars, aggVars, rtspVars, prioVars, retVars, gotVars, cfgVars, monVars, clockVars, netVars, sendVars, backoffVars, healVars, colourVars, sharedVars, channelVars>>
    \/ DetectRegion /\ UNCHANGED <<fanVars, aggVars, rtspVars, prioVars, retVars, gotVars, cfgVars, monVars, clockVars, netVars, sendVars, backoffVars, healVars, colourVars, sharedVars, channelVars>>
    \/ DetectRegionRaises /\ UNCHANGED <<fanVars, aggVars, rtspVars, prioVars, retVars, gotVars, cfgVars, monVars, clockVars, netVars, sendVars, backoffVars, healVars, colourVars, sharedVars, channelVars>>

SpecMulti == DetStart /\ [][MultiNext]_vars

\* The monitoring tasks of one camera under start_monitoring() and
\* stop_monitoring() calls.
MonNext ==
    \/ start_monitoring /\ UNCHANGED <<fanVars, aggVars, detVars, rtspVars, prioVars, retVars, gotVars, cfgVars, multiVars, clockVars, netVars, sendVars, backoffVars, healVars, colourVars, sharedVars, channelVars>>
    \/ stop_monitoring /\ UNCHANGED <<fanVars, aggVars, detVars, rtspVars, prioVars, retVars, gotVars, cfgVars, multiVars, clockVars, netVars, sendVars, backoffVars, healVars, colourVars, sharedVars, channelVars>>
    \/ stop_monitoring_join /\ UNCHANGED <<fanVars, aggVars, detVars, rtspVars, prioVars, retVars, gotVars, cfgVars, multiVars, clockVars, netVars, sendVars, backoffVars, healVars, colourVars, sharedVars, channelVars>>
    \/ NewFrame /\ UNCHANGED <<fanVars, aggVars, detVars, rtspVars, prioVars, retVars, gotVars, cfgVars, multiVars, clockVars, netVars, sendVars, backoffVars, healVars, colourVars, sharedVars, channelVars>>
    \/ \E t \in MThreads : _monitor_camera(t) /\ UNCHANGED <<fanVars, aggVars, detVars, rtspVars, prioVars, retVars, gotVars, cfgVars, multiVars, clockVars, netVars, sendVars, backoffVars, healVars, colourVars, sharedVars, channelVars>>

SpecMon == Init /\ [][MonNext]_vars

\* A frame source that is started and never stopped, observed by the health
\* check while time passes.
HealthNext ==
    \/ start /\ UNCHANGED <<fanVars, aggVars, detVars, prioVars, retVars, gotVars, cfgVars, multiVars, monVars, clockVars, netVars, sendVars, backoffVars, healVars, colourVars, sharedVars, channelVars>>
    \/ \E h \in Handles : HandleLost(h) /\ UNCHANGED <<fanVars, aggVars, detVars, prioVars, retVars, gotVars, cfgVars, multiVars, monVars, clockVars, netVars, sendVars, backoffVars, healVars, colourVars, sharedVars, channelVars>>
    \/ \E t \in Threads : TimedCaptureStep(t) /\ UNCHANGED <<fanVars, aggVars, detVars, prioVars, retVars, gotVars, cfgVars, multiVars, monVars, netVars, sendVars, backoffVars, healVars, colourVars, sharedVars, channelVars>>
    \/ Tick /\ UNCHANGED <<fanVars, aggVars, detVars, rtspVars, prioVars, retVars, gotVars, cfgVars, multiVars, monVars, netVars, sendVars, backoffVars, healVars, colourVars, sharedVars, channelVars>>

SpecHealth == Init /\ [][HealthNext]_vars

\* The monitoring tasks of one camera whose reachability changes.  The
\* monitoring threads and the capture thread are scheduled by the operating
\* system, so their steps are taken when they stay possible; the operator's
\* calls and the network are under no such obligation.
RetryNext ==
    \/ add_stream /\ UNCHANGED <<fanVars, aggVars, detVars, rtspVars, prioVars, retVars, gotVars, cfgVars, multiVars, clockVars, sendVars, backoffVars, healVars, colourVars, sharedVars, channelVars>>
    \/ stop_monitoring /\ UNCHANGED <<fanVars, aggVars, detVars, rtspVars, prioVars, retVars, gotVars, cfgVars, multiVars, clockVars, netVars, sendVars, backoffVars, healVars, colourVars, sharedVars, channelVars>>
    \/ stop_monitoring_join /\ UNCHANGED <<fanVars, aggVars, detVars, rtspVars, prioVars, retVars, gotVars, cfgVars, multiVars, clockVars, netVars, sendVars, backoffVars, healVars, colourVars, sharedVars, channelVars>>
    \/ NewFrameOnNetwork /\ UNCHANGED <<fanVars, aggVars, detVars, rtspVars, prioVars, retVars, gotVars, cfgVars, multiVars, clockVars, sendVars, backoffVars, healVars, colourVars, sharedVars, channelVars>>
    \/ \E t \in MThreads : _monitor_camera(t) /\ UNCHANGED <<fanVars, aggVars, detVars, rtspVars, prioVars, retVars, gotVars, cfgVars, multiVars, clockVars, netVars, sendVars, backoffVars, healVars, colourVars, sharedVars, channelVars>>
    \/ CameraUp /\ UNCHANGED <<fanVars, aggVars, detVars, rtspVars, prioVars, retVars, gotVars, cfgVars, multiVars, clockVars, monVars, sendVars, backoffVars, healVars, colourVars, sharedVars, channelVars>>
    \/ CameraDown /\ UNCHANGED <<fanVars, aggVars, detVars, rtspVars, prioVars, retVars, gotVars, cfgVars, multiVars, clockVars, monVars, sendVars, backoffVars, healVars, colourVars, sharedVars, channelVars>>

RetryFairness ==
    /\ \A t \in MThreads : WF_vars(_monitor_camera(t) /\ UNCHANGED <<fanVars, aggVars, detVars, rtspVars, prioVars, retVars, gotVars, cfgVars, multiVars, clockVars, netVars, sendVars, backoffVars, healVars, colourVars, sharedVars, channelVars>>)
    /\ WF_vars(NewFrameOnNetwork /\ UNCHANGED <<fanVars, aggVars, detVars, rtspVars, prioVars, retVars, gotVars, cfgVars, multiVars, clockVars, sendVars, backoffVars, healVars, colourVars, sharedVars, channelVars>>)

SpecRetry == Init /\ [][RetryNext]_vars /\ RetryFairness

\* Monitoring of one camera under start_monitoring() and stop_monitoring()
\* calls, its threads handing their detections to the aggregator.
RestartNext ==
    \/ start_monitoring /\ UNCHANGED <<fanVars, aggVars, detVars, rtspVars, prioVars, retVars, gotVars, cfgVars, multiVars, clockVars, netVars, sendVars, backoffVars, healVars, colourVars, sharedVars, channelVars>>
    \/ stop_monitoring /\ UNCHANGED <<fanVars, aggVars, detVars, rtspVars, prioVars, retVars, gotVars, cfgVars, multiVars, clockVars, netVars, sendVars, backoffVars, healVars, colourVars, sharedVars, channelVars>>
    \/ stop_monitoring_join /\ UNCHANGED <<fanVars, aggVars, detVars, rtspVars, prioVars, retVars, gotVars, cfgVars, multiVars, clockVars, netVars, sendVars, backoffVars, healVars, colourVars, sharedVars, channelVars>>
    \/ NewFrame /\ UNCHANGED <<fanVars, aggVars, detVars, rtspVars, prioVars, retVars, gotVars, cfgVars, multiVars, clockVars, netVars, sendVars, backoffVars, healVars, colourVars, sharedVars, channelVars>>
    \/ \E t \in MThreads : MonitorLoop(t) /\ UNCHANGED <<fanVars, aggVars, detVars, rtspVars, prioVars, retVars, gotVars, cfgVars, multiVars, clockVars, netVars, sendVars, backoffVars, healVars, colourVars, sharedVars, channelVars>>
    \/ \E t \in MThreads : \E current_status \in FedStatus :
          ThreadProcessDetection(t, current_status) /\ UNCHANGED <<detVars, rtspVars, prioVars, retVars, gotVars, cfgVars, multiVars, clockVars, netVars, backoffVars, healVars, colourVars, sharedVars, channelVars>>
    \/ \E t \in MThreads : ThreadRecordStatus(t) /\ UNCHANGED <<detVars, rtspVars, prioVars, retVars, gotVars, cfgVars, multiVars, clockVars, netVars, backoffVars, healVars, colourVars, sharedVars, channelVars>>
    \/ \E t \in MThreads : MonitorSleep(t) /\ UNCHANGED <<fanVars, aggVars, detVars, rtspVars, prioVars, retVars, gotVars, cfgVars, multiVars, clockVars, netVars, sendVars, backoffVars, healVars, colourVars, sharedVars, channelVars>>

SpecRestart == AggStart /\ [][RestartNext]_vars

\* A frame source that is started and never stopped, the waits of its
\* reconnections written down.
BackoffNext ==
    \/ start /\ UNCHANGED <<fanVars, aggVars, detVars, prioVars, retVars, gotVars, cfgVars, multiVars, monVars, clockVars, netVars, sendVars, backoffVars, healVars, colourVars, sharedVars, channelVars>>
    \/ \E h \in Handles : HandleLost(h) /\ UNCHANGED <<fanVars, aggVars, detVars, prioVars, retVars, gotVars, cfgVars, multiVars, monVars, clockVars, netVars, sendVars, backoffVars, healVars, colourVars, sharedVars, channelVars>>
    \/ \E t \in Threads : BackoffCaptureStep(t) /\ UNCHANGED <<fanVars, aggVars, detVars, prioVars, retVars, gotVars, cfgVars, multiVars, monVars, clockVars, netVars, sendVars, healVars, colourVars, sharedVars, channelVars>>

SpecBackoff == Init /\ [][BackoffNext]_vars

\* A frame source that is started and never stopped, on a camera whose
\* reachability changes and whose connections fail.  The capture thread is
\* scheduled by the operating system, so its step is taken when it stays
\* possible; the network is under no obligation.
HealNext ==
    \/ StartOnNetwork /\ UNCHANGED <<fanVars, aggVars, detVars, prioVars, retVars, gotVars, cfgVars, multiVars, monVars, clockVars, sendVars, backoffVars, netVars, healVars, colourVars, sharedVars, channelVars>>
    \/ CameraUp /\ UNCHANGED <<fanVars, aggVars, detVars, prioVars, retVars, gotVars, cfgVars, multiVars, monVars, clockVars, sendVars, backoffVars, rtspVars, healVars, colourVars, sharedVars, channelVars>>
    \/ CameraDown /\ UNCHANGED <<fanVars, aggVars, detVars, prioVars, retVars, gotVars, cfgVars, multiVars, monVars, clockVars, sendVars, backoffVars, rtspVars, healVars, colourVars, sharedVars, channelVars>>
    \/ \E h \in Handles : HandleLostInBudget(h) /\ UNCHANGED <<fanVars, aggVars, detVars, prioVars, retVars, gotVars, cfgVars, multiVars, monVars, clockVars, sendVars, backoffVars, netVars, healVars, colourVars, sharedVars, channelVars>>
    \/ \E h \in Handles : HandleBreaks(h) /\ UNCHANGED <<fanVars, aggVars, detVars, prioVars, retVars, gotVars, cfgVars, multiVars, monVars, clockVars, sendVars, backoffVars, rtspVars, netVars, colourVars, sharedVars, channelVars>>
    \/ \E t \in Threads : HealCaptureStep(t) /\ UNCHANGED <<fanVars, aggVars, detVars, prioVars, retVars, gotVars, cfgVars, multiVars, monVars, clockVars, sendVars, backoffVars, netVars, healVars, colourVars, sharedVars, channelVars>>

HealFairness ==
    \A t \in Threads : WF_vars(HealCaptureStep(t) /\ UNCHANGED <<fanVars, aggVars, detVars, prioVars, retVars, gotVars, cfgVars, multiVars, monVars, clockVars, sendVars, backoffVars, netVars, healVars, colourVars, sharedVars, channelVars>>)

SpecHeal == Init /\ [][HealNext]_vars /\ HealFairness

\* detect_led_color called on any one crop.
ColourStart ==
    /\ FanInit /\ AggInit /\ RtspInit /\ ExtInit
    /\ lamp = NoLamp
    /\ status_history = [n \in RegionNames |-> <<>>]
    /\ crop \in ColourCrops
    /\ detection = NoDetection
    /\ recent = [n \in RegionNames |-> <<>>]

ColourNext == ColourCall /\ UNCHANGED <<fanVars, aggVars, rtspVars, prioVars, retVars, gotVars, cfgVars, multiVars, monVars, clockVars, netVars, sendVars, backoffVars, healVars, detVars, sharedVars, channelVars>>

SpecColour == ColourStart /\ [][ColourNext]_vars

\* The monitoring tasks of two cameras classifying their frames in any
\* interleaving.
SharedNext ==
    \E c \in Cameras : CameraDetect(c) /\ UNCHANGED <<fanVars, aggVars, rtspVars, prioVars, retVars, gotVars, cfgVars, multiVars, monVars, clockVars, netVars, sendVars, backoffVars, healVars, colourVars, channelVars>>

SpecShared == Init /\ [][SharedNext]_vars

\* Bound: the frames read in a run of a frame source that is restarted.
RestartFrames == 3

\* A frame source that is stopped and started again while its queue is not
\* consumed: the capture thread of the earlier start can outlive the join of
\* stop() and then runs beside the thread of the later start.
RequeueNext ==
    \/ start /\ UNCHANGED <<fanVars, aggVars, detVars, prioVars, retVars, gotVars, cfgVars, multiVars, monVars, clockVars, netVars, sendVars, backoffVars, healVars, colourVars, sharedVars, channelVars>>
    \/ stop /\ UNCHANGED <<fanVars, aggVars, detVars, prioVars, retVars, gotVars, cfgVars, multiVars, monVars, clockVars, netVars, sendVars, backoffVars, healVars, colourVars, sharedVars, channelVars>>
    \/ stop_join /\ UNCHANGED <<fanVars, aggVars, detVars, prioVars, retVars, gotVars, cfgVars, multiVars, monVars, clockVars, netVars, sendVars, backoffVars, healVars, colourVars, sharedVars, channelVars>>
    \/ \E h \in Handles : HandleLost(h) /\ UNCHANGED <<fanVars, aggVars, detVars, prioVars, retVars, gotVars, cfgVars, multiVars, monVars, clockVars, netVars, sendVars, backoffVars, healVars, colourVars, sharedVars, channelVars>>
    \/ \E t \in Threads : CaptureStep(t, RestartFrames) /\ UNCHANGED <<fanVars, aggVars, detVars, prioVars, retVars, gotVars, cfgVars, multiVars, monVars, clockVars, netVars, sendVars, backoffVars, healVars, colourVars, sharedVars, channelVars>>

SpecRequeue == Init /\ [][RequeueNext]_vars

\* Channels of any configuration registered with the manager, and events of
\* any priority sent through them.
ChannelNext ==
    \/ \E config \in ChannelConfigs : AddChannel(config) /\ UNCHANGED <<fanVars, aggVars, detVars, rtspVars, prioVars, retVars, gotVars, cfgVars, multiVars, monVars, clockVars, netVars, sendVars, backoffVars, healVars, colourVars, sharedVars>>
    \/ \E priority \in Priorities : \E accepts \in [DOMAIN channels -> BOOLEAN] :
          ChannelSend(priority, accepts) /\ UNCHANGED <<fanVars, aggVars, detVars, rtspVars, prioVars, retVars, gotVars, cfgVars, multiVars, monVars, clockVars, netVars, sendVars, backoffVars, healVars, colourVars, sharedVars>>

SpecChannel == Init /\ [][ChannelNext]_vars

----------------------------------------------------------------------------
(***************************************************************************)
(* Properties                                                              *)
(***************************************************************************)

\* The number of adjacent differing pairs of a sequence of statuses.
RECURSIVE Changes(_)
Changes(s) ==
    IF Len(s) < 2 THEN 0
    ELSE (IF s[1] # s[2] THEN 1 ELSE 0) + Changes(Tail(s))

\* No other (camera, region) has had a detection processed under p's key.
SoleUser(p) ==
    \A q \in Pairs \ {p} :
        region_key(q.camera, q.region) = region_key(p.camera, p.region) => fed[q] = <<>>

\* C1: for the detections of one (camera, region) processed in order, the
\* number of fan-out dispatches is the number of adjacent differing statuses
\* plus one for the first observation.
C1_DispatchCount ==
    \A p \in Pairs :
        SoleUser(p) =>
            dispatched[p] = IF fed[p] = <<>> THEN 0 ELSE Changes(fed[p]) + 1

\* [GREEN, GREEN, RED, RED, GREEN] has been processed for a pair, and 3
\* dispatches were made for it.
C1_Witness ==
    \E p \in Pairs :
        /\ SoleUser(p)
        /\ fed[p] = <<GREEN, GREEN, RED, RED, GREEN>>
        /\ dispatched[p] = 3
        /\ mon[p.camera] = Idle

\* C2: send_notification returns true exactly when at least one registered
\* channel returned success; a raise counts as a failure, and with no channel
\* registered the result is false.
C2_SuccessIffAnyChannel ==
    last_send.called =>
        (last_send.ret <=>
            \E i \in 1..Len(last_send.provs) :
                i \in DOMAIN last_send.outs /\ last_send.outs[i] = "ok")

\* Three channels, exactly one of which succeeded while one raised: true.
C2_Witness ==
    /\ last_send.called
    /\ Len(last_send.provs) = 3
    /\ last_send.outs = <<"raise", "fail", "ok">>
    /\ last_send.ret

\* C3: one send_notification invokes every registered channel exactly once,
\* in registration order, whatever the earlier channels did, and no channel's
\* exception reaches the caller.
C3_EveryChannelInvoked ==
    last_send.called =>
        /\ last_send.invoked = [i \in 1..Len(last_send.provs) |-> i]
        /\ ~last_send.raised

\* The first channel raised, the second failed, and the third was still invoked.
C3_Witness ==
    /\ last_send.called
    /\ Len(last_send.provs) = 3
    /\ last_send.outs[1] = "raise"
    /\ last_send.outs[2] = "fail"
    /\ last_send.invoked = <<1, 2, 3>>


\* The last detect_led_in_region call was for region n, on a non-empty crop.
Classified(n) == detection.region = n /\ crop.size > 0

\* The last call classified a crop whose mean brightness is below the OFF
\* threshold.
DarkCall == \E n \in RegionNames : Classified(n) /\ crop.brightness < brightness_threshold

Flashing == {FLASHING_GREEN, FLASHING_YELLOW, FLASHING_RED}

\* C6 as stated: a crop darker than the OFF threshold is reported OFF with
\* confidence 1.0, whatever the region's history and the crop's colours.
C6_DarkIsOff ==
    DarkCall => detection.status = OFF /\ detection.confidence = One

\* C6 as amended: a crop darker than the OFF threshold has raw colour OFF and
\* confidence 1.0 whatever its colours; it is reported OFF unless the region's
\* window, this frame included, is full and holds at least flashing_threshold
\* changes, and then it is reported as a flashing status.
C6_DarkIsOffOrFlashing ==
    \A n \in RegionNames :
        (Classified(n) /\ crop.brightness < brightness_threshold) =>
            /\ detection.raw = OFF
            /\ detection.confidence = One
            /\ IF Len(recent[n]) = history_length /\ Changes(recent[n]) >= flashing_threshold
               THEN detection.status \in Flashing
               ELSE detection.status = OFF

\* A dark crop that holds coloured pixels, classified on a full window with
\* fewer than flashing_threshold changes.
C6_Witness ==
    \E n \in RegionNames :
        /\ Classified(n)
        /\ crop.brightness < brightness_threshold
        /\ \E c \in Colours : crop.count[c] > 0
        /\ Len(recent[n]) = history_length
        /\ Changes(recent[n]) = 2
        /\ detection.status = OFF

Alternating == <<RED, OFF, RED, OFF, RED, OFF, RED, OFF, RED, OFF>>

\* C7: when the raw colours of a region's last history_length frames are RED,
\* OFF, RED, OFF, ..., the frame that completes them is reported FLASHING_RED
\* although its raw colour is OFF.
C7_AlternatingIsFlashingRed ==
    \A n \in RegionNames :
        (Classified(n) /\ recent[n] = Alternating) => detection.status = FLASHING_RED

\* The alternating sequence has been fed and its last, OFF, frame classified.
C7_Witness ==
    \E n \in RegionNames :
        /\ Classified(n)
        /\ recent[n] = Alternating
        /\ detection.raw = OFF
        /\ detection.status = FLASHING_RED

\* The last history_length non-empty crops of region n all had raw colour c.
Steady(n, c) ==
    /\ Len(recent[n]) = history_length
    /\ \A i \in 1..history_length : recent[n][i] = c

\* C8: once a region's last history_length frames all had the same raw colour,
\* its history window holds only that colour and the frame is reported with
\* that raw colour, never as flashing.
C8_SteadyNeverFlashing ==
    \A n \in RegionNames : \A c \in RawStatus :
        Steady(n, c) =>
            /\ status_history[n] = recent[n]
            /\ Classified(n) => detection.status = c

\* history_length RED frames in a row have been classified and RED is reported.
C8_Witness ==
    \E n \in RegionNames :
        /\ Steady(n, RED)
        /\ Classified(n)
        /\ detection.status = RED


\* No capture thread is between reading a frame and having queued it.
NoPushInProgress == \A t \in Threads : pc[t] \notin {"enqueue", "drop", "put"}

\* C4: with a queue of capacity buffer_size and no consumer, once the capture
\* loop has pushed n frames the queue holds the min(n, buffer_size) most
\* recent ones in capture order and frames_dropped is max(0, n - buffer_size).
C4_DropOldest ==
    NoPushInProgress =>
        LET n == stats.frames_received
            k == Min(n, buffer_size)
        IN  /\ frame_queue = [i \in 1..k |-> n - k + i]
            /\ stats.frames_dropped = Max(0, n - buffer_size)

\* Five frames pushed into a queue of capacity 2: frames 4 and 5 are queued
\* and 3 frames were dropped.
C4_Witness ==
    /\ NoPushInProgress
    /\ buffer_size = 2
    /\ stats.frames_received = 5
    /\ frame_queue = <<4, 5>>
    /\ stats.frames_dropped = 3

\* C5: a capture thread ends only when is_running has been cleared, which
\* only stop() does; when _attempt_reconnection has used up its attempts the
\* thread returns to the top of its loop and, still running and without a
\* connection, enters the reconnection sequence again from attempt 1.
C5_LoopOutlivesFailedReconnection ==
    [][\A t \in Threads :
          /\ (pc[t] # "done" /\ pc'[t] = "done") => ~is_running
          /\ (is_running /\ ~is_running') => (ctl = "idle" /\ ctl' = "joining")
          /\ (pc[t] = "reconnect" /\ attempt[t] = max_attempts /\ pc'[t] # "reconnect")
                => pc'[t] = "loop"
          /\ (pc[t] = "loop" /\ is_running /\ ~Connected /\ pc'[t] # "loop")
                => (pc'[t] = "reconnect" /\ attempt'[t] = 0)
          /\ (pc[t] = "reconnect" /\ attempt[t] = 0 /\ is_running /\ pc'[t] # "reconnect")
                => (pc'[t] = "reopen" /\ attempt'[t] = 1)
      ]_vars

\* A capture thread whose reconnection sequence failed five times is in the
\* first attempt of a new sequence.
C5_Witness ==
    \E t \in Threads :
        /\ reconnect_failed[t]
        /\ is_running
        /\ pc[t] = "reopen"
        /\ attempt[t] = 1

\* C9: at most one opened, unreleased handle exists for the camera.
C9_OneActiveHandle == Cardinality(ActiveHandles) <= 1

\* C10: get_latest_frame returns none whenever the source is not connected.
C10_NoneUnlessConnected == ~Connected => get_latest_frame = NoFrame

C11_NoReadAfterFailedRead ==
    \A t \in Threads : pc[t] = "read" => (cap = None \/ cap # failed_on)

\* C12: when stop() has returned (and start() has not been called again) the
\* source is not running, refers to no handle and its queue is empty.
C12_StoppedIsReleased ==
    (ctl = "idle" /\ ~is_running) => (cap = None /\ frame_queue = <<>>)

\* C13: when stop() has returned, every capture thread that was started has
\* ended.
C13_CleanJoin ==
    (ctl = "idle" /\ ~is_running) => \A t \in Threads : pc[t] \in {"unborn", "done"}

\* C19: the priority of an event is a fixed function of its status: high for
\* RED and FLASHING_RED, medium for YELLOW, FLASHING_YELLOW and OFF, low for
\* GREEN and FLASHING_GREEN; it is the priority_mapping entry of the status.
C19_PriorityOfStatus ==
    \A i \in 1..Len(events) :
        LET e == events[i]
        IN  /\ e.status \in {RED, FLASHING_RED} => e.priority = "high"
            /\ e.status \in {YELLOW, FLASHING_YELLOW, OFF} => e.priority = "medium"
            /\ e.status \in {GREEN, FLASHING_GREEN} => e.priority = "low"
            /\ e.priority = priority_mapping[e.status]

\* Events were built for OFF, FLASHING_GREEN and FLASHING_RED, with
\* priorities medium, low and high.
C19_Witness ==
    /\ Len(events) = 3
    /\ events[1] = [status |-> OFF, priority |-> "medium"]
    /\ events[2] = [status |-> FLASHING_GREEN, priority |-> "low"]
    /\ events[3] = [status |-> FLASHING_RED, priority |-> "high"]

\* C14: a start() call on a running source returns True and spawns nothing;
\* one that returns False leaves the source not running, with no handle and
\* no new thread; one that returns True on a source that was not running
\* leaves it running on an opened handle with exactly one new capture thread.
C14_StartOutcome ==
    [][StartCall =>
          /\ is_running =>
                /\ start_ret' = "True"
                /\ UNCHANGED <<is_running, cap, handle, capture_thread, pc>>
          /\ (~is_running /\ start_ret' = "False") =>
                /\ ~is_running'
                /\ cap' = None
                /\ ActiveHandles' \subseteq ActiveHandles
                /\ UNCHANGED <<capture_thread, pc>>
          /\ (~is_running /\ start_ret' = "True") =>
                /\ is_running'
                /\ cap' # None /\ handle'[cap'] = "open"
                /\ Cardinality({t \in Threads : pc'[t] # pc[t]}) = 1
                /\ pc[capture_thread'] = "unborn" /\ pc'[capture_thread'] = "loop"
      ]_vars

\* start() has failed on a source that was stopped before: it is not running,
\* holds no handle, and the only capture thread ever spawned has ended.
C14_Witness ==
    /\ start_ret = "False"
    /\ ~is_running
    /\ cap = None
    /\ pc = [t \in Threads |-> IF t = ThreadOrder[1] THEN "done" ELSE "unborn"]

\* C20: a get_frame_from_queue call returns None when the queue is empty at
\* its timeout, and otherwise the oldest buffered frame, which was captured
\* after every frame the consumer has been given before.
C20_FifoDequeue ==
    [][got' # got =>
          LET r == got'[Len(got')]
          IN  IF frame_queue = <<>>
              THEN r = NoFrame
              ELSE /\ r # NoFrame
                   /\ \A j \in 1..Len(frame_queue) : r <= frame_queue[j]
                   /\ \A i \in 1..Len(got) : got[i] < r
                   /\ Len(frame_queue') = Len(frame_queue) - 1
      ]_vars

\* The consumer was given frame 1, then None on an empty queue, then frame 3
\* (frame 2 was dropped from the full queue), then frame 4.
C20_Witness == got = <<1, NoFrame, 3, 4>>

\* The geometry the specification requires of a region.
WellFormed(g) == g.x >= 0 /\ g.y >= 0 /\ g.width > 0 /\ g.height > 0

\* C15: every region that is registered or handed to the detector has
\* non-negative coordinates and positive dimensions.
C15_OnlyWellFormedRegions ==
    /\ \A i \in 1..Len(registered) : WellFormed(registered[i])
    /\ \A g \in classified : WellFormed(g)

\* The indices among the first n regions of the call whose classification
\* did not raise.
Returned(n) == {k \in 1..n : k \notin multi.raised}

\* C18: detect_multiple_leds holds one result, in order, for every region
\* it has gone through whose classification did not raise, and the result of
\* a region whose crop is empty is OFF with confidence 0 and brightness 0.
C18_EmptyCropIsOffAndOthersReturned ==
    LET done == Returned(multi.i - 1)
    IN  /\ Len(multi.results) = Cardinality(done)
        /\ \A k \in done :
              multi.results[Cardinality({j \in done : j <= k})].region = multi.regions[k]
        /\ \A r \in 1..Len(multi.results) :
              multi.results[r].size = 0 =>
                  /\ multi.results[r].status = OFF
                  /\ multi.results[r].confidence = Zero
                  /\ multi.results[r].brightness = 0

\* A finished call on regions c and d in which the classification of c
\* raised and d had an empty crop: the one result is d's, OFF with
\* confidence 0 and brightness 0.
C18_Witness ==
    /\ multi.regions = <<"c", "d">>
    /\ multi.i = 3
    /\ multi.raised = {1}
    /\ multi.results = <<[region |-> "d", status |-> OFF, confidence |-> Zero,
                          brightness |-> 0, size |-> 0]>>

\* C17: the frames of the camera whose detections the aggregator processes
\* are processed in capture order: no frame is processed after a newer one.
C17_CaptureOrder ==
    \A i, j \in 1..Len(processed) : i < j => processed[i] <= processed[j]

\* C21: the health check reports healthy only if the source is connected and
\* its last frame is younger than healthy_age seconds.
C21_HealthyOnlyIfConnected ==
    is_healthy => (is_connected /\ frame_age < healthy_age)

\* C22: a camera whose connection failed is retried: once monitoring runs
\* and the camera stays reachable, its stream is eventually, and from then
\* on, present.
C22_FailedOpenIsRetried ==
    <>[](running /\ reachable) => <>[](stream = "present")

\* C23: the table is written by _process_detection only, no entry is ever
\* removed, stop_monitoring and start_monitoring leave it unchanged, and so a
\* status that has not changed is not dispatched again after a restart: the
\* dispatches of the region are one per change of the detections processed
\* for it.
C23_TableSurvivesRestart ==
    /\ [][/\ \A k \in Keys : last_status[k] # Absent => last_status'[k] # Absent
          /\ last_status' # last_status =>
                 \E t \in MThreads : mpc[t] = "send" /\ mpc'[t] = "sleep"
          /\ (running' # running \/ mctl' # mctl) => last_status' = last_status
        ]_vars
    /\ [](dispatched[MonitoredPair] =
              IF fed[MonitoredPair] = <<>> THEN 0 ELSE Changes(fed[MonitoredPair]) + 1)

\* The frame effect alone: only _process_detection writes the table, no
\* entry is removed, and stop_monitoring and start_monitoring leave it alone.
C23_TableFrame ==
    [][/\ \A k \in Keys : last_status[k] # Absent => last_status'[k] # Absent
       /\ last_status' # last_status =>
              \E t \in MThreads : mpc[t] = "send" /\ mpc'[t] = "sleep"
       /\ (running' # running \/ mctl' # mctl) => last_status' = last_status
     ]_vars

\* The colours of a window, and its most recent non-OFF entry ("none": the
\* window holds only OFF).
LitColours(s) == {s[i] : i \in DOMAIN s} \cap Colours

RECURSIVE LastLit(_)
LastLit(s) ==
    IF s = <<>> THEN "none"
    ELSE IF s[Len(s)] \in Colours THEN s[Len(s)]
    ELSE LastLit(SubSeq(s, 1, Len(s) - 1))

\* C24: on a full window the reported status is the flashing variant of a
\* colour of the window exactly when the window holds at least
\* flashing_threshold changes (such a window always holds a colour);
\* otherwise it is the raw colour of the frame.
C24_FlashingIffThreshold ==
    \A n \in RegionNames :
        (Classified(n) /\ Len(recent[n]) = history_length) =>
            IF Changes(recent[n]) >= flashing_threshold
            THEN /\ LitColours(recent[n]) # {}
                 /\ detection.status \in {FlashingOf(c) : c \in LitColours(recent[n])}
            ELSE /\ detection.status = detection.raw
                 /\ detection.status \notin Flashing

\* A full window with exactly flashing_threshold changes whose lit frame is
\* reported as flashing.
C24_Witness ==
    \E n \in RegionNames :
        /\ Classified(n)
        /\ Len(recent[n]) = history_length
        /\ Changes(recent[n]) = flashing_threshold
        /\ detection.raw \in Colours
        /\ detection.status = FlashingOf(detection.raw)

\* C25: while fewer than history_length non-empty crops of a region have
\* been classified, the reported status is the raw colour of the frame and
\* never a flashing variant.
C25_NoFlashingBeforeFull ==
    \A n \in RegionNames :
        (Classified(n) /\ Len(recent[n]) < history_length) =>
            /\ detection.status = detection.raw
            /\ detection.status \in RawStatus

\* The classification before the window is full, after a sequence that
\* changed at every frame.
C25_Witness ==
    \E n \in RegionNames :
        /\ Classified(n)
        /\ Len(recent[n]) = history_length - 1
        /\ Changes(recent[n]) = history_length - 2
        /\ detection.status = detection.raw

\* C26: a reported flashing status is the flashing variant of the most recent
\* non-OFF raw colour of the region's window.
C26_BaseIsLastLit ==
    \A n \in RegionNames :
        (Classified(n) /\ detection.status \in Flashing) =>
            /\ LastLit(status_history[n]) \in Colours
            /\ detection.status = FlashingOf(LastLit(status_history[n]))

\* A flashing window of two colours that ends on OFF frames: the colour
\* reported is the later one, not the first one.
C26_Witness ==
    \E n \in RegionNames :
        /\ Classified(n)
        /\ detection.status \in Flashing
        /\ detection.raw = OFF
        /\ status_history[n][history_length - 1] = OFF
        /\ Cardinality(LitColours(status_history[n])) = 2
        /\ status_history[n][1] \in Colours
        /\ detection.status # FlashingOf(status_history[n][1])

\* C27: a region's history holds at most history_length entries, which are
\* the raw statuses of its last non-empty classifications in order, none of
\* them a flashing variant.
C27_HistoryIsRecentRaw ==
    \A n \in RegionNames :
        /\ Len(status_history[n]) <= history_length
        /\ status_history[n] = recent[n]
        /\ \A i \in DOMAIN status_history[n] : status_history[n][i] \in RawStatus

\* A full window whose newest entry is the raw colour of a frame that was
\* reported as flashing.
C27_Witness ==
    \E n \in RegionNames :
        /\ Classified(n)
        /\ Len(status_history[n]) = history_length
        /\ detection.status \in Flashing
        /\ status_history[n][history_length] = detection.raw
        /\ status_history[n][1] # detection.raw

\* C28: when a _process_detection call returns, the table holds the
\* detection's status under the call's key, whatever the fan-out did: both
\* for a call that dispatched and for a call that found the status unchanged.
C28_TableFollowsDetection ==
    [][\A p \in Pairs :
          LET key == region_key(p.camera, p.region)
              returns_after_dispatch ==
                  /\ mon[p.camera] # Idle
                  /\ mon[p.camera].region = p.region
                  /\ mon'[p.camera] = Idle
              returns_without_dispatch ==
                  /\ fed'[p] # fed[p]
                  /\ mon'[p.camera] = Idle
          IN  /\ returns_after_dispatch => last_status'[key] = fed[p][Len(fed[p])]
              /\ returns_without_dispatch => last_status'[key] = fed'[p][Len(fed'[p])]
      ]_vars

\* RED was dispatched to a channel that raised, the fan-out returned false,
\* the table holds RED all the same, and the next RED was not dispatched.
C28_Witness ==
    \E p \in Pairs :
        /\ SoleUser(p)
        /\ fed[p] = <<RED, RED>>
        /\ dispatched[p] = 1
        /\ last_send.called
        /\ last_send.outs = <<"raise">>
        /\ ~last_send.ret
        /\ last_status[region_key(p.camera, p.region)] = RED
        /\ mon[p.camera] = Idle

\* C29: on a change the table is written before the fan-out is invoked: while
\* a monitoring thread is inside the fan-out for a detection, the table
\* already holds the detection's status under its key.
C29_TableWrittenBeforeFanOut ==
    \A c \in Cameras :
        mon[c] # Idle => last_status[region_key(c, mon[c].region)] = mon[c].status

\* Bound: the number of records a log of bounded capacity would hold.
HistoryCapacity == 3

\* Every dispatched transition of a (camera, region) whose call has returned
\* has exactly one record in the history file.
OneRecordPerTransition ==
    \A p \in Pairs :
        mon[p.camera] = Idle => Len(detection_history[p]) = dispatched[p]

\* C30: every transition appends exactly one history record, whatever the
\* fan-out did, and the log never holds more records than its capacity.
C30_OneRecordPerTransitionBounded ==
    /\ OneRecordPerTransition
    /\ SumLen(detection_history, Pairs) <= HistoryCapacity

\* C31: a reconnection sequence makes at most max_attempts attempts; attempt
\* k releases the handle and then waits 2^k seconds before it re-opens; the
\* sequence ends at the first re-open that succeeds, and the loop goes on
\* with the new handle.
C31_BackoffSequence ==
    /\ [](\A t \in Threads :
            /\ attempt[t] <= max_attempts
            /\ Len(slept[t]) <= max_attempts
            /\ \A k \in DOMAIN slept[t] : slept[t][k] = 2 ^ k
            /\ pc[t] = "reopen" => /\ cap = None
                                   /\ ActiveHandles = {}
                                   /\ Len(slept[t]) = attempt[t] - 1
            /\ pc[t] = "assign" => Len(slept[t]) = attempt[t])
    /\ [][\A t \in Threads :
            /\ (pc[t] = "reconnect" /\ pc'[t] = "reopen") =>
                   /\ attempt'[t] = attempt[t] + 1
                   /\ cap' = None
                   /\ cap # None => handle'[cap] = "released"
            /\ (pc[t] = "assign" /\ pc'[t] # "assign" /\ newcap[t] # None) =>
                   /\ pc'[t] = "loop"
                   /\ cap' = newcap[t]
                   /\ handle'[cap'] = handle[newcap[t]]
                   /\ handle'[cap'] \in {"open", "lost"}
            /\ (pc[t] = "assign" /\ pc'[t] # "assign" /\ newcap[t] = None) =>
                   pc'[t] = "reconnect"
            /\ (pc[t] = "loop" /\ pc'[t] = "read") => Connected
         ]_vars

\* A sequence whose fifth attempt succeeded: it waited 2, 4, 8, 16 and 32
\* seconds and the loop reads frames from the new handle.
C31_Witness ==
    \E t \in Threads :
        /\ slept[t] = <<2, 4, 8, 16, 32>>
        /\ pc[t] = "read"
        /\ Connected
        /\ cap # "h1"

\* C32: the frame source heals itself: once the camera stays reachable, a
\* running source ends up, and stays, on an opened handle whose reads deliver
\* frames, also when the handle whose reads failed still reports itself
\* opened.
C32_SelfHeals ==
    <>[]reachable => <>[](is_running => Delivering)

\* The same for connection failures that the handle notices.
C32_HealsLostHandles ==
    (<>[]reachable /\ [](broken = {})) => <>[](is_running => Delivering)

\* The largest mask of a crop, and the first colour in the order GREEN,
\* YELLOW, RED that has it.
Rank(c) == IF c = GREEN THEN 1 ELSE IF c = YELLOW THEN 2 ELSE 3

MaxCount(roi) == CHOOSE m \in 0..roi.size : /\ \E c \in Colours : roi.count[c] = m
                                            /\ \A c \in Colours : roi.count[c] <= m

FirstMax(roi) ==
    CHOOSE c \in Colours :
        /\ roi.count[c] = MaxCount(roi)
        /\ \A d \in Colours : Rank(d) < Rank(c) => roi.count[d] < MaxCount(roi)

\* C33: for a crop that is not dark the raw colour is the colour of the
\* largest mask (the first of GREEN, YELLOW, RED on a tie) with confidence
\* count / pixels; a largest mask strictly below 10% of the pixels gives OFF
\* with confidence 1.0, and one at exactly 10% gives the colour.
C33_BestColourAndEvidence ==
    (colour_result # NoColourResult /\ crop.brightness >= brightness_threshold) =>
        IF 10 * MaxCount(crop) < crop.size
        THEN colour_result.status = OFF /\ colour_result.confidence = One
        ELSE /\ colour_result.status = FirstMax(crop)
             /\ colour_result.confidence = [num |-> MaxCount(crop), den |-> crop.size]

\* A lit crop in which GREEN and RED each hold exactly 10% of the pixels and
\* YELLOW fewer: GREEN is reported with confidence 10%.
C33_Witness ==
    /\ colour_result # NoColourResult
    /\ crop.brightness >= brightness_threshold
    /\ 10 * crop.count[GREEN] = crop.size
    /\ crop.count[RED] = crop.count[GREEN]
    /\ crop.count[YELLOW] < crop.count[GREEN]
    /\ colour_result.status = GREEN
    /\ colour_result.confidence = [num |-> crop.count[GREEN], den |-> crop.size]

\* C34: once stop_monitoring has cleared running and released the frame
\* sources, and after it has returned, no monitoring task hands a frame to
\* the detector and the aggregator or begins a dispatch.
C34_NoWorkAfterRelease ==
    [][(\/ processed' # processed
        \/ \E t \in MThreads : mpc[t] # "send" /\ mpc'[t] = "send") => running
      ]_vars

\* C35: the table is keyed by the pair (camera id, region name): distinct
\* pairs have distinct entries, so the dispatches of every pair are one per
\* change of its own detections, whatever is processed for other pairs.
C35_PairsDoNotShare ==
    \A p \in Pairs :
        dispatched[p] = IF fed[p] = <<>> THEN 0 ELSE Changes(fed[p]) + 1

\* C36: the status reported for a region of a camera depends only on the
\* frames of that camera: it is what detect_flashing gives on the window of
\* that camera's own raw colours.
C36_PartitionedByCamera ==
    caller # NoCaller =>
        detection.status = detect_flashing(own[caller], detection.raw)

\* Frames are counted once: never fewer than before, and no more dropped
\* than received.
CountersGrow ==
    /\ stats'.frames_received >= stats.frames_received
    /\ stats'.frames_dropped >= stats.frames_dropped

\* C37 as stated: in every state frames_received = frames_dropped + frames
\* dequeued + frames in the queue; the counters never decrease and
\* frames_dropped never exceeds frames_received.
C37_FrameAccounting ==
    /\ [](/\ stats.frames_received = stats.frames_dropped + taken + Len(frame_queue)
          /\ stats.frames_dropped <= stats.frames_received)
    /\ [][CountersGrow]_vars

\* C37 as amended: the equation holds whenever the capture thread is
\* between two iterations of its loop (a frame that has been read and counted
\* is in none of the three terms until it is queued); the counters never
\* decrease and frames_dropped never exceeds frames_received.
C37_FrameAccountingBetweenPushes ==
    /\ [](/\ NoPushInProgress =>
                stats.frames_received = stats.frames_dropped + taken + Len(frame_queue)
          /\ stats.frames_dropped <= stats.frames_received)
    /\ [][CountersGrow]_vars

\* Five frames received, of which some were dropped, some dequeued and some
\* are still queued.
C37_Witness ==
    /\ NoPushInProgress
    /\ stats.frames_received = 5
    /\ stats.frames_dropped = 2
    /\ taken = 2
    /\ Len(frame_queue) = 1

\* C38: the queue never holds more than buffer_size frames, and the capture
\* loop never waits for room: from a read frame on, each of its steps up to
\* the put is possible at once, and the put appends the frame to the queue.
C38_BoundedQueueNoBlocking ==
    /\ [](/\ Len(frame_queue) <= buffer_size
          /\ \A t \in Threads :
                /\ pc[t] = "enqueue" => ENABLED Enqueue(t)
                /\ pc[t] = "drop" => ENABLED DropOldest(t)
                /\ pc[t] = "put" => ENABLED PutFrame(t)
                /\ pc[t] \in {"enqueue", "drop", "put"} => frame[t] # NoFrame)
    /\ [][\A t \in Threads :
            /\ (pc[t] = "read" /\ frame'[t] # NoFrame) => pc'[t] = "enqueue"
            /\ (pc[t] = "enqueue" /\ pc'[t] # "enqueue") => pc'[t] \in {"drop", "put"}
            /\ (pc[t] = "drop" /\ pc'[t] # "drop") => pc'[t] = "put"
            /\ (pc[t] = "put" /\ pc'[t] # "put") =>
                   /\ frame_queue' = Append(frame_queue, frame[t])
                   /\ pc'[t] = "loop"
         ]_vars

\* The channel's configuration makes the claim's case: it is disabled, has
\* no endpoint, or its priority_filter excludes the priority.
NothingToDeliver(config, priority) ==
    \/ ~config.enabled
    \/ config.endpoints # "one"
    \/ Excluded(config, priority)

\* C39: a channel that is disabled, has no endpoints configured, or whose
\* priority_filter excludes the event's priority contacts no server and
\* returns True from send.
C39_SkippedChannelReportsSuccess ==
    fanout.called =>
        \A i \in DOMAIN fanout.sent :
            NothingToDeliver(channels[i], fanout.priority) =>
                ~fanout.sent[i].attempted /\ fanout.sent[i].ret


====
